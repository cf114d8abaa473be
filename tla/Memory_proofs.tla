---------------------------- MODULE Memory_proofs ----------------------------
(***************************************************************************)
(* The memory every pass of the compiler is written with: what a pool      *)
(* iterates and counts, whatever the size of its blocks and of its          *)
(* elements, that the hash map is a dictionary for any keys and any hash,   *)
(* and that no array the compiler's functions were given or left with is    *)
(* ever overwritten, for any number of arenas of any size, of functions and *)
(* of arrays; and over bit arrays, that the search for the largest clique   *)
(* finds it in every graph, within any bound and unless its time is over.   *)
(*                                                                         *)
(* The argument about pools is about the order of the places of all blocks, *)
(* one block after the other: the recursive definitions of the pool are     *)
(* solved from the last place down.  A loop that is open has given what     *)
(* lasts before the place it is at and still meets what lasts behind it,    *)
(* because places keep their number when blocks are added.                  *)
(*                                                                         *)
(* The argument about the hash map is about its links: each pair links to   *)
(* the next one in its bucket in order of insertion, so the links lead up,  *)
(* the recursion along them has a solution, and a chain meets every pair of *)
(* its bucket.                                                              *)
(*                                                                         *)
(* The argument about arenas is about which region an array lies in.  A     *)
(* function that returns gives back what is behind its mark in one of the   *)
(* two context arenas, and its single use arenas.  What outlives it must    *)
(* lie elsewhere or before the mark, though functions called later push to  *)
(* the arenas of functions called earlier: they do so only through an arena *)
(* that no function in between has taken for its temporary data.            *)
(*                                                                         *)
(* The argument about the search is about the cliques that are open to a    *)
(* call: what it took, with some of what it may still add.  A call that     *)
(* fails leaves no open clique better than the best one, because what it    *)
(* prunes has too few mappings or only mappings of earlier turns, and the   *)
(* table says how large a clique of those is.  One that succeeds is better  *)
(* by one only, so a turn that ends early has nothing left to find, and the *)
(* bound is not passed.                                                     *)
(***************************************************************************)
EXTENDS Pool, Arena, Hashmap, MaxClique, SequenceTheorems, FiniteSetTheorems, WellFoundedInduction, TLAPS

LEMMA MinIs ==
  ASSUME NEW S \in SUBSET Nat, S # {}
  PROVE  Min(S) \in S /\ \A y \in S : Min(S) <= y
<1>1. PICK x \in S : \A y \in S : ~(<<y, x>> \in OpToRel(<, Nat))
  BY WFMin, NatLessThanWellFounded
<1>2. ASSUME NEW y \in S PROVE x <= y
  <2>1. SUFFICES ASSUME y < x PROVE FALSE
    OBVIOUS
  <2>2. <<y, x>> \in OpToRel(<, Nat)
    BY <2>1 DEF OpToRel
  <2>3. QED BY <1>1, <2>2
<1>3. QED BY <1>2 DEF Min

\* What holds of the last number and passes down holds of all.
LEMMA FromTheLast ==
  ASSUME NEW L \in Nat, NEW G, L + 1 \in G, \A k \in 1 .. L : k + 1 \in G => k \in G
  PROVE  \A k \in 1 .. L + 1 : k \in G
<1>1. SUFFICES ASSUME NEW m \in 1 .. L + 1, m \notin G PROVE FALSE
  OBVIOUS
<1>2. PICK Bad : Bad = {d \in 0 .. L : L + 1 - d \notin G}
  OBVIOUS
<1>3. Bad \subseteq Nat /\ L + 1 - m \in Bad
  BY <1>1, <1>2
<1>4. PICK d \in Bad : \A c \in Bad : ~(<<c, d>> \in OpToRel(<, Nat))
  BY <1>3, WFMin, NatLessThanWellFounded
<1>5. d \in 0 .. L /\ L + 1 - d \notin G
  BY <1>2
<1>6. d # 0
  BY <1>5
<1>7. L + 1 - d \in 1 .. L /\ L + 1 - d + 1 = L + 1 - (d - 1) /\ d - 1 \in 0 .. L
  BY <1>5, <1>6
<1>8. d - 1 \in Bad
  BY <1>2, <1>5, <1>7
<1>9. <<d - 1, d>> \in OpToRel(<, Nat)
  BY <1>5, <1>7 DEF OpToRel
<1>10. QED BY <1>4, <1>8, <1>9

\* A function on 1 .. L + 1 may be defined from its last value down.
Definable(L, S, e, step) ==
  \E f \in [1 .. L + 1 -> S] :
    f[L + 1] = e /\ \A k \in 1 .. L : f[k] = step[k][f[k + 1]]

LEMMA Downwards ==
  ASSUME NEW L \in Nat, NEW S, NEW e \in S, NEW step \in [1 .. L -> [S -> S]]
  PROVE  Definable(L, S, e, step)
<1> DEFINE Upto(m) == \E f \in [m .. L + 1 -> S] :
                        f[L + 1] = e /\ \A k \in m .. L : f[k] = step[k][f[k + 1]]
<1>1. Upto(L + 1)
  <2>1. PICK f : f = [k \in L + 1 .. L + 1 |-> e]
    OBVIOUS
  <2>2. f \in [L + 1 .. L + 1 -> S] /\ f[L + 1] = e /\ (L + 1 .. L) = {}
    BY <2>1
  <2>3. QED BY <2>2
<1>2. ASSUME NEW m \in 1 .. L, Upto(m + 1) PROVE Upto(m)
  <2>1. PICK f \in [m + 1 .. L + 1 -> S] :
          f[L + 1] = e /\ \A k \in m + 1 .. L : f[k] = step[k][f[k + 1]]
    BY <1>2
  <2>2. PICK g : g = [k \in m .. L + 1 |-> IF k = m THEN step[m][f[m + 1]] ELSE f[k]]
    OBVIOUS
  <2>3. f[m + 1] \in S /\ step[m][f[m + 1]] \in S
    BY <2>1
  <2>4. g \in [m .. L + 1 -> S]
    BY <2>1, <2>2, <2>3
  <2>5. g[L + 1] = e
    BY <2>1, <2>2
  <2>6. ASSUME NEW k \in m .. L PROVE g[k] = step[k][g[k + 1]]
    <3>1. g[k + 1] = f[k + 1]
      BY <2>2
    <3>2. CASE k = m
      BY <3>1, <3>2, <2>2
    <3>3. CASE k # m
      BY <3>1, <3>3, <2>1, <2>2
    <3>4. QED BY <3>2, <3>3
  <2>7. QED BY <2>4, <2>5, <2>6
<1>3. Upto(1)
  <2> HIDE DEF Upto
  <2>1. PICK G : G = {m \in 1 .. L + 1 : Upto(m)}
    OBVIOUS
  <2>2. L + 1 \in G /\ \A k \in 1 .. L : k + 1 \in G => k \in G
    BY <1>1, <1>2, <2>1
  <2>3. \A k \in 1 .. L + 1 : k \in G
    BY <2>2, FromTheLast
  <2>4. QED BY <2>1, <2>3
<1>4. QED BY <1>3 DEF Definable

LEMMA Splits ==
  ASSUME NEW s \in Nat, NEW c \in Nat, c < s, NEW m \in Nat
  PROVE  c + s * m \in Nat /\ (c + s * m) % s = c /\ (c + s * m) \div s = m
<1>1. s * m \in Nat
  OBVIOUS
<1>2. QED BY <1>1

LEMMA Divides ==
  ASSUME NEW m \in Nat, NEW s \in Nat \ {0}
  PROVE  m % s \in Nat /\ m \div s \in Nat
<1>1. PICK q \in Int, r \in 0 .. s - 1 : q = m \div s /\ r = m % s /\ m = s * q + r
  OBVIOUS
<1>2. q >= 0
  <2>1. SUFFICES ASSUME q <= -1 PROVE FALSE
    BY <1>1
  <2>2. s * q <= s * (-1)
    BY <2>1
  <2>3. QED BY <1>1, <2>2
<1>3. QED BY <1>1, <1>2


\* The place of unit c of block a.
NumberedAt(L, U, a, c) ==
  /\ (a - 1) * U + c + 1 \in 1 .. L * U
  /\ ((a - 1) * U + c) \div U = a - 1 /\ ((a - 1) * U + c) % U = c

\* The places of L blocks of U units, numbered from 1.
LEMMA Numbering ==
  ASSUME NEW U \in Nat \ {0}, NEW L \in Nat
  PROVE  /\ L * U \in Nat
         /\ \A a \in 1 .. L, c \in 0 .. U - 1 :
              /\ (a - 1) * U + c + 1 \in 1 .. L * U
              /\ ((a - 1) * U + c) \div U = a - 1 /\ ((a - 1) * U + c) % U = c
         /\ \A k \in 1 .. L * U :
              /\ (k - 1) \div U + 1 \in 1 .. L /\ (k - 1) % U \in 0 .. U - 1
              /\ ((k - 1) \div U) * U + ((k - 1) % U) = k - 1
<1>1. L * U \in Nat
  OBVIOUS
<1>2. ASSUME NEW a \in 1 .. L, NEW c \in 0 .. U - 1
      PROVE  /\ (a - 1) * U + c + 1 \in 1 .. L * U
             /\ ((a - 1) * U + c) \div U = a - 1 /\ ((a - 1) * U + c) % U = c
  <2>1. PICK m \in Nat : m = a - 1
    OBVIOUS
  <2>2. (c + U * m) % U = c /\ (c + U * m) \div U = m /\ U * m \in Nat
    BY Splits
  <2>3. (m + 1) * U <= L * U
    <3>1. PICK d \in Nat : L = m + 1 + d
      <4>1. L - m - 1 \in Nat /\ L = m + 1 + (L - m - 1)
        BY <2>1
      <4>2. QED BY <4>1
    <3>2. d * U >= 0 /\ (m + 1) * U \in Nat
      OBVIOUS
    <3>3. L * U = (m + 1) * U + d * U
      BY <3>1
    <3>4. QED BY <3>2, <3>3
  <2>4. (m + 1) * U = U * m + U /\ m * U = U * m
    OBVIOUS
  <2>5. m * U + c = c + U * m /\ m * U + c + 1 >= 1 /\ m * U + c + 1 <= L * U
    BY <2>2, <2>3, <2>4
  <2>6. QED BY <1>1, <2>1, <2>2, <2>5
<1>3. ASSUME NEW k \in 1 .. L * U
      PROVE  /\ (k - 1) \div U + 1 \in 1 .. L /\ (k - 1) % U \in 0 .. U - 1
             /\ ((k - 1) \div U) * U + ((k - 1) % U) = k - 1
  <2>1. PICK m \in Nat : m = k - 1
    BY <1>1
  <2>2. PICK q \in Int, r \in 0 .. U - 1 : q = m \div U /\ r = m % U /\ m = U * q + r
    OBVIOUS
  <2>3. q \in Nat
    BY <2>2, Divides
  <2>4. q < L
    <3>1. SUFFICES ASSUME q >= L PROVE FALSE
      BY <2>3
    <3>2. PICK d \in Nat : q = L + d
      <4>1. q - L \in Nat /\ q = L + (q - L)
        BY <3>1
      <4>2. QED BY <4>1
    <3>3. U * q = L * U + U * d /\ U * d \in Nat
      BY <3>2
    <3>4. m < L * U
      BY <1>1, <2>1
    <3>5. QED BY <1>1, <2>2, <3>3, <3>4
  <2>5. q * U + r = m
    BY <2>2
  <2>6. q + 1 \in 1 .. L
    BY <2>3, <2>4
  <2>7. q = (k - 1) \div U /\ r = (k - 1) % U
    BY <2>1, <2>2, Zenon
  <2>8. QED BY <2>1, <2>2, <2>5, <2>6, <2>7, Zenon
<1>4. QED BY <1>1, <1>2, <1>3

LEMMA PlaceNumbered ==
  ASSUME NEW U \in Nat \ {0}, NEW L \in Nat, NEW a \in 1 .. L, NEW c \in 0 .. U - 1
  PROVE  NumberedAt(L, U, a, c)
<1>1. \A x \in 1 .. L, y \in 0 .. U - 1 :
        /\ (x - 1) * U + y + 1 \in 1 .. L * U
        /\ ((x - 1) * U + y) \div U = x - 1 /\ ((x - 1) * U + y) % U = y
  BY Numbering, Zenon
<1>2. QED BY <1>1, Zenon DEF NumberedAt

-----------------------------------------------------------------------------
(* The size of a block.                                                     *)

LEMMA Grows == ASSUME NEW a \in Nat, NEW b \in Nat \ {0} PROVE a * b \in Nat /\ a <= a * b
<1>1. PICK d \in Nat : b = d + 1
  <2>1. b - 1 \in Nat /\ b = b - 1 + 1
    OBVIOUS
  <2>2. QED BY <2>1
<1>2. a * b = a * d + a /\ a * d \in Nat
  BY <1>1
<1>3. QED BY <1>2

\* The pages for a number of elements are as long as those elements at least.
LEMMA PagesHold ==
  ASSUME NEW n \in Nat \ {0}
  PROVE  PagesFor(n) \in Nat /\ n <= PageSize * PagesFor(n)
<1>1. PICK P \in Nat \ {0}, E \in Nat \ {0}, H \in Nat :
        P = PageSize /\ E = ElemSize /\ H = HeaderSize
  BY PoolAssumption
<1>2. n * E \in Nat /\ n <= n * E
  BY Grows
<1>3. PICK r \in Nat : r = RoundUpDiv(n, 8)
  <2>1. (n + 8 - 1) \div 8 \in Nat
    OBVIOUS
  <2>2. QED BY <2>1 DEF RoundUpDiv
<1>4. PICK m \in Nat : m = n * E + H + r - 1 /\ m + 1 >= n
  <2>1. n * E + H + r - 1 \in Nat /\ n * E + H + r - 1 + 1 >= n
    BY <1>2
  <2>2. QED BY <2>1
<1>5. PICK q \in Int, c \in 0 .. P - 1 : q = m \div P /\ c = m % P /\ m = P * q + c
  OBVIOUS
<1>6. q \in Nat
  BY <1>5, Divides
<1>7. PagesFor(n) = q + 1
  BY <1>1, <1>3, <1>4, <1>5 DEF PagesFor, Pages
<1>8. P * (q + 1) = P * q + P
  BY <1>6
<1>9. P * q \in Nat
  BY <1>6
<1>10. n <= P * (q + 1)
  BY <1>4, <1>5, <1>8, <1>9
<1>11. QED BY <1>1, <1>6, <1>7, <1>10

LEMMA BlocksHaveUnits == unitsPerPageBlock \in Nat \ {0}
<1>1. PICK P \in Nat \ {0}, g \in Nat : P = PageSize /\ g = pagesPerBlock
  BY PoolAssumption, PagesHold DEF pagesPerBlock, minAmount
<1>2. PICK N \in Nat : N = PageSize * pagesPerBlock /\ N >= 8
  <2>1. P * g \in Nat
    OBVIOUS
  <2>2. 8 <= P * g
    BY <1>1, PagesHold DEF pagesPerBlock, minAmount
  <2>3. QED BY <1>1, <2>1, <2>2
<1>3. PagesFor(N + 1) # pagesPerBlock
  <2>1. SUFFICES ASSUME PagesFor(N + 1) = pagesPerBlock PROVE FALSE
    OBVIOUS
  <2>2. N + 1 <= PageSize * PagesFor(N + 1)
    BY PagesHold
  <2>3. QED BY <1>2, <2>1, <2>2
<1> DEFINE Loop(f) == [n \in minAmount .. PageSize * pagesPerBlock |->
                         IF PagesFor(n + 1) # pagesPerBlock THEN n ELSE f[n + 1]]
<1>4. PICK L \in Nat : L = N - 8
  BY <1>2
<1>5. PICK step : step = [k \in 1 .. L |-> [x \in Nat \ {0} |->
                            IF PagesFor(k + 7 + 1) # pagesPerBlock THEN k + 7 ELSE x]]
  OBVIOUS
<1>6. step \in [1 .. L -> [Nat \ {0} -> Nat \ {0}]]
  <2>1. ASSUME NEW k \in 1 .. L
        PROVE  [x \in Nat \ {0} |-> IF PagesFor(k + 7 + 1) # pagesPerBlock THEN k + 7 ELSE x]
                 \in [Nat \ {0} -> Nat \ {0}]
    <3>1. k + 7 \in Nat \ {0}
      OBVIOUS
    <3>2. QED BY <3>1
  <2>2. QED BY <1>5, <2>1, Zenon
<1>7. PICK f \in [1 .. L + 1 -> Nat \ {0}] :
        f[L + 1] = N /\ \A k \in 1 .. L : f[k] = step[k][f[k + 1]]
  <2>1. N \in Nat \ {0}
    BY <1>2
  <2>2. Definable(L, Nat \ {0}, N, step)
    BY <1>6, <2>1, Downwards, Zenon
  <2>3. QED BY <2>2 DEF Definable
<1>8. PICK h : h = [n \in minAmount .. PageSize * pagesPerBlock |-> f[n - 7]]
  OBVIOUS
<1>9. h = Loop(h)
  <2>1. ASSUME NEW n \in 8 .. N
        PROVE  f[n - 7] = IF PagesFor(n + 1) # pagesPerBlock THEN n ELSE h[n + 1]
    <3>1. CASE n = N
      <4>1. n - 7 = L + 1
        BY <1>4, <3>1
      <4>2. QED BY <1>3, <1>7, <3>1, <4>1
    <3>2. CASE n # N
      <4>1. PICK k \in 1 .. L : k = n - 7
        BY <1>4, <3>2
      <4>2. k + 7 = n /\ n + 1 - 7 = k + 1 /\ n + 1 \in 8 .. N /\ k + 1 \in 1 .. L + 1
        BY <3>2, <4>1
      <4>3. h[n + 1] = f[k + 1]
        BY <1>2, <1>8, <4>2 DEF minAmount
      <4>4. f[k + 1] \in Nat \ {0}
        BY <4>2
      <4>5. f[k] = IF PagesFor(k + 7 + 1) # pagesPerBlock THEN k + 7 ELSE f[k + 1]
        BY <1>5, <1>7, <4>4, Zenon
      <4>6. QED BY <4>1, <4>2, <4>3, <4>5
    <3>3. QED BY <3>1, <3>2
  <2>2. minAmount .. PageSize * pagesPerBlock = 8 .. N
    BY <1>2 DEF minAmount
  <2>3. QED BY <1>8, <2>1, <2>2, Zenon
<1>10. PICK u : u = CHOOSE upTo : upTo = Loop(upTo)
  OBVIOUS
<1>11. u = Loop(u)
  BY <1>9, <1>10, Zenon
<1>12. unitsPerPageBlock = u[minAmount]
  BY <1>10, Zenon DEF unitsPerPageBlock
<1>13. ASSUME NEW n \in 8 .. N
       PROVE  u[n] = IF PagesFor(n + 1) # pagesPerBlock THEN n ELSE u[n + 1]
  <2>1. n \in minAmount .. PageSize * pagesPerBlock
    BY <1>2 DEF minAmount
  <2>2. QED BY <1>11, <2>1, Zenon
<1>14. PICK G : G = {k \in 1 .. L + 1 : u[k + 7] \in Nat \ {0}}
  OBVIOUS
<1>15. L + 1 \in G
  <2>1. L + 1 + 7 = N /\ N \in 8 .. N /\ L + 1 \in 1 .. L + 1
    BY <1>2, <1>4
  <2>2. u[N] = N
    BY <1>3, <1>13, <2>1
  <2>3. QED BY <1>2, <1>14, <2>1, <2>2
<1>16. \A k \in 1 .. L : k + 1 \in G => k \in G
  <2>1. ASSUME NEW k \in 1 .. L, k + 1 \in G PROVE k \in G
    <3>1. k + 7 \in 8 .. N /\ k + 1 + 7 = k + 7 + 1 /\ k + 7 \in Nat \ {0} /\ k \in 1 .. L + 1
      BY <1>4
    <3>2. u[k + 7 + 1] \in Nat \ {0}
      BY <1>14, <2>1, <3>1
    <3>3. QED BY <1>13, <1>14, <3>1, <3>2
  <2>2. QED BY <2>1
<1>17. \A k \in 1 .. L + 1 : k \in G
  BY <1>15, <1>16, FromTheLast
<1>18. 1 \in G /\ 1 + 7 = 8
  BY <1>17
<1>19. QED BY <1>12, <1>14, <1>18 DEF minAmount

-----------------------------------------------------------------------------
(* The places of the pool in the order a loop walks them.                   *)

BlockType == [bitmap : SUBSET Units, allocatedUnits : Nat]

Places == BlockNumbers \X Units
InUse == {p \in Places : IsValid(p)}
Last == Len(blocks) * unitsPerPageBlock

Order(p) == (p[1] - 1) * unitsPerPageBlock + p[2] + 1
Rank(p) == IF p = NoPosition THEN Last + 1 ELSE Order(p)
At(k) == IF k > Last THEN NoPosition
         ELSE <<(k - 1) \div unitsPerPageBlock + 1, (k - 1) % unitsPerPageBlock>>

LEMMA PlacesAre ==
  ASSUME blocks \in Seq(BlockType)
  PROVE  /\ Last \in Nat
         /\ At(Last + 1) = NoPosition
         /\ NoPosition \notin Places
         /\ \A p \in Places :
              Order(p) \in 1 .. Last /\ At(Order(p)) = p /\ Advance(p) = At(Order(p) + 1)
         /\ \A k \in 1 .. Last : At(k) \in Places /\ Order(At(k)) = k
<1>1. PICK U \in Nat \ {0}, L \in Nat : U = unitsPerPageBlock /\ L = Len(blocks)
  BY BlocksHaveUnits
<1>2. Units = 0 .. U - 1 /\ BlockNumbers = 1 .. L /\ Last = L * U /\ L * U \in Nat
  BY <1>1, Numbering DEF Units, BlockNumbers, Last
<1>0. ASSUME NEW k, NEW x, x = k - 1, ~(k > Last) PROVE At(k) = <<x \div U + 1, x % U>>
  BY <1>0, <1>1 DEF At
<1>3. ASSUME NEW p \in Places
      PROVE  /\ p # NoPosition
             /\ Order(p) \in 1 .. Last /\ At(Order(p)) = p /\ Advance(p) = At(Order(p) + 1)
  <2>1. PICK a \in 1 .. L, c \in 0 .. U - 1 : p = <<a, c>>
    BY <1>2 DEF Places
  <2>2. p[1] = a /\ p[2] = c /\ p # NoPosition
    BY <2>1 DEF NoPosition
  <2>3. PICK m \in Nat : m = (a - 1) * U + c
    <3>1. (a - 1) * U \in Nat
      BY Numbering
    <3>2. QED BY <3>1
  <2>4. m + 1 \in 1 .. L * U /\ m \div U = a - 1 /\ m % U = c
    <3>1. NumberedAt(L, U, a, c)
      BY PlaceNumbered, Zenon
    <3>2. QED BY <2>3, <3>1 DEF NumberedAt
  <2>5. Order(p) = m + 1
    BY <1>1, <2>2, <2>3 DEF Order
  <2>6. At(m + 1) = <<a, c>>
    <3>1. m = m + 1 - 1 /\ ~(m + 1 > Last) /\ a - 1 + 1 = a
      BY <1>2, <2>4
    <3>2. At(m + 1) = <<m \div U + 1, m % U>>
      BY <1>0, <3>1
    <3>3. QED BY <2>4, <3>1, <3>2
  <2>7. Advance(p) = At(m + 2)
    <3>1. m + 1 = m + 2 - 1
      OBVIOUS
    <3>2. CASE c + 1 < U
      <4>1. (a - 1) * U + (c + 1) = m + 1 /\ c + 1 \in 0 .. U - 1
        BY <2>3, <3>2
      <4>2. m + 2 \in 1 .. L * U /\ (m + 1) \div U = a - 1 /\ (m + 1) % U = c + 1
        <5>1. PICK d \in 0 .. U - 1 : d = c + 1
          BY <4>1
        <5>2. NumberedAt(L, U, a, d)
          BY PlaceNumbered, Zenon
        <5>3. m + 1 + 1 = m + 2
          OBVIOUS
        <5>4. QED BY <4>1, <5>1, <5>2, <5>3 DEF NumberedAt
      <4>3. ~(m + 2 > Last) /\ a - 1 + 1 = a
        BY <1>2, <4>2
      <4>4. At(m + 2) = <<a, c + 1>>
        <5>1. At(m + 2) = <<(m + 1) \div U + 1, (m + 1) % U>>
          BY <1>0, <3>1, <4>3
        <5>2. QED BY <4>2, <4>3, <5>1
      <4>5. QED BY <1>1, <2>2, <3>2, <4>4 DEF Advance
    <3>3. CASE ~(c + 1 < U) /\ a < L
      <4>1. c = U - 1
        BY <3>3
      <4>2. (a + 1 - 1) * U + 0 = m + 1
        <5>1. a * U = (a - 1) * U + U
          OBVIOUS
        <5>2. a + 1 - 1 = a
          OBVIOUS
        <5>3. (a - 1) * U \in Nat /\ a * U \in Nat
          BY Numbering
        <5>4. QED BY <2>3, <4>1, <5>1, <5>2, <5>3
      <4>3. a + 1 \in 1 .. L /\ 0 \in 0 .. U - 1
        BY <3>3
      <4>4. m + 2 \in 1 .. L * U /\ (m + 1) \div U = a + 1 - 1 /\ (m + 1) % U = 0
        <5>1. /\ (a + 1 - 1) * U + 0 + 1 \in 1 .. L * U
              /\ ((a + 1 - 1) * U + 0) \div U = a + 1 - 1 /\ ((a + 1 - 1) * U + 0) % U = 0
          BY <4>3, Numbering
        <5>2. m + 1 + 1 = m + 2
          OBVIOUS
        <5>3. QED BY <4>2, <5>1, <5>2
      <4>5. ~(m + 2 > Last) /\ a + 1 - 1 + 1 = a + 1
        BY <1>2, <4>4
      <4>6. At(m + 2) = <<a + 1, 0>>
        <5>1. At(m + 2) = <<(m + 1) \div U + 1, (m + 1) % U>>
          BY <1>0, <3>1, <4>5
        <5>2. QED BY <4>4, <4>5, <5>1
      <4>7. QED BY <1>1, <2>2, <3>3, <4>6 DEF Advance
    <3>4. CASE ~(c + 1 < U) /\ ~(a < L)
      <4>1. a = L /\ c = U - 1
        BY <3>4
      <4>2. m + 1 = L * U
        <5>1. L * U = (L - 1) * U + U
          OBVIOUS
        <5>2. (L - 1) * U \in Nat
          BY <4>1, Numbering
        <5>3. QED BY <2>3, <4>1, <5>1, <5>2
      <4>3. m + 2 > L * U
        BY <1>2, <4>2
      <4>4. At(m + 2) = NoPosition
        BY <1>2, <4>3 DEF At
      <4>5. QED BY <1>1, <2>2, <3>4, <4>4 DEF Advance
    <3>5. QED BY <3>2, <3>3, <3>4
  <2>8. Order(p) + 1 = m + 2
    BY <2>5
  <2>9. QED BY <1>2, <2>1, <2>2, <2>4, <2>5, <2>6, <2>7, <2>8
<1>4. ASSUME NEW k \in 1 .. Last PROVE At(k) \in Places /\ Order(At(k)) = k
  <2>1. PICK q, r : q = (k - 1) \div U /\ r = (k - 1) % U
    OBVIOUS
  <2>2. q + 1 \in 1 .. L /\ r \in 0 .. U - 1 /\ q * U + r = k - 1
    BY <1>2, <2>1, Numbering
  <2>3. q \in Int
    BY <1>2, <2>1
  <2>4. ~(k > Last)
    BY <1>2
  <2>5. At(k) = <<q + 1, r>>
    BY <1>0, <2>1, <2>4
  <2>6. q + 1 - 1 = q /\ k - 1 + 1 = k
    BY <1>2, <2>3
  <2>7. Order(<<q + 1, r>>) = k
    <3>1. PICK p : p = <<q + 1, r>>
      OBVIOUS
    <3>2. p[1] = q + 1 /\ p[2] = r
      BY <3>1
    <3>3. Order(p) = (q + 1 - 1) * U + r + 1
      <4>1. Order(p) = (p[1] - 1) * U + p[2] + 1
        BY <1>1 DEF Order
      <4>2. QED BY <2>2, <2>3, <3>2, <4>1
    <3>4. QED BY <2>2, <2>6, <3>1, <3>3
  <2>8. QED BY <1>2, <2>2, <2>5, <2>7 DEF Places
<1>5. At(Last + 1) = NoPosition
  BY <1>2 DEF At
<1>6. QED BY <1>2, <1>3, <1>4, <1>5

LEMMA RanksAre ==
  ASSUME blocks \in Seq(BlockType)
  PROVE  /\ \A p \in Positions : Rank(p) \in 1 .. Last + 1 /\ At(Rank(p)) = p
         /\ \A k \in 1 .. Last + 1 : At(k) \in Positions /\ Rank(At(k)) = k
         /\ \A p \in Positions : p # NoPosition => p \in Places /\ Rank(p) = Order(p)
<1>1. Positions = Places \cup {NoPosition}
  BY DEF Positions, Places
<1>2. ASSUME NEW k \in 1 .. Last + 1 PROVE At(k) \in Positions /\ Rank(At(k)) = k
  <2>1. CASE k = Last + 1
    BY <1>1, <2>1, PlacesAre DEF Rank
  <2>2. CASE k # Last + 1
    <3>1. k \in 1 .. Last
      BY <2>2, PlacesAre
    <3>2. At(k) \in Places /\ Order(At(k)) = k /\ At(k) # NoPosition
      BY <3>1, PlacesAre
    <3>3. QED BY <1>1, <3>2 DEF Rank
  <2>3. QED BY <2>1, <2>2
<1>3. ASSUME NEW p \in Positions PROVE Rank(p) \in 1 .. Last + 1 /\ At(Rank(p)) = p
  <2>1. CASE p = NoPosition
    BY <2>1, PlacesAre DEF Rank
  <2>2. CASE p # NoPosition
    <3>1. p \in Places /\ Rank(p) = Order(p)
      BY <1>1, <2>2 DEF Rank
    <3>2. Order(p) \in 1 .. Last /\ At(Order(p)) = p
      BY <3>1, PlacesAre
    <3>3. QED BY <3>1, <3>2, PlacesAre
  <2>3. QED BY <2>1, <2>2
<1>4. QED BY <1>1, <1>2, <1>3 DEF Rank

-----------------------------------------------------------------------------
(* The next element in use.                                                 *)

\* v is the first one at place k or behind it.
FirstAt(k, v) ==
  /\ v \in InUse \cup {NoPosition}
  /\ Rank(v) >= k
  /\ \A w \in InUse : Order(w) >= k => Order(w) >= Rank(v)

LEMMA ValidFromIs ==
  ASSUME blocks \in Seq(BlockType)
  PROVE  /\ \A p \in Positions : FirstAt(Rank(p), ValidFrom(p))
         /\ \A k \in 1 .. Last : ~IsValid(At(k)) => ValidFrom(At(k)) = ValidFrom(At(k + 1))
         /\ \A p \in InUse : ValidFrom(p) = p
         /\ ValidFrom(NoPosition) = NoPosition
<1> DEFINE Loop(nx) == [q \in Positions |->
             IF q = NoPosition \/ IsValid(q) THEN q ELSE nx[Advance(q)]]
<1>0. PICK L \in Nat : L = Last
  BY PlacesAre
<1>1. PICK step : step = [k \in 1 .. L |-> [q \in Positions |-> IF IsValid(At(k)) THEN At(k) ELSE q]]
  OBVIOUS
<1>2. step \in [1 .. L -> [Positions -> Positions]]
  <2>1. ASSUME NEW k \in 1 .. L
        PROVE  [q \in Positions |-> IF IsValid(At(k)) THEN At(k) ELSE q] \in [Positions -> Positions]
    <3>1. At(k) \in Positions
      BY <1>0, RanksAre
    <3>2. QED BY <3>1
  <2>2. QED BY <1>1, <2>1, Zenon
<1>3. PICK f \in [1 .. L + 1 -> Positions] :
        f[L + 1] = NoPosition /\ \A k \in 1 .. L : f[k] = step[k][f[k + 1]]
  <2>1. NoPosition \in Positions
    BY DEF Positions
  <2>2. Definable(L, Positions, NoPosition, step)
    BY <1>2, <2>1, Downwards, Zenon
  <2>3. QED BY <2>2 DEF Definable
<1>4. PICK h : h = [q \in Positions |-> f[Rank(q)]]
  OBVIOUS
<1>5. h = Loop(h)
  <2>1. ASSUME NEW q \in Positions
        PROVE  f[Rank(q)] = IF q = NoPosition \/ IsValid(q) THEN q ELSE h[Advance(q)]
    <3>1. CASE q = NoPosition
      BY <1>0, <1>3, <3>1 DEF Rank
    <3>2. CASE q # NoPosition
      <4>1. PICK k \in 1 .. L : k = Rank(q) /\ k = Order(q) /\ q = At(k) /\ q \in Places
        BY <1>0, <3>2, RanksAre, PlacesAre
      <4>2. k + 1 \in 1 .. L + 1
        OBVIOUS
      <4>3. Advance(q) = At(k + 1) /\ At(k + 1) \in Positions /\ Rank(At(k + 1)) = k + 1
        BY <1>0, <4>1, <4>2, PlacesAre, RanksAre
      <4>4. h[Advance(q)] = f[k + 1]
        BY <1>4, <4>3
      <4>5. f[k] = IF IsValid(At(k)) THEN At(k) ELSE f[k + 1]
        <5>1. f[k + 1] \in Positions
          BY <4>2
        <5>2. QED BY <1>1, <1>3, <5>1, Zenon
      <4>6. QED BY <3>2, <4>1, <4>4, <4>5, Zenon
    <3>3. QED BY <3>1, <3>2
  <2>2. QED BY <1>4, <2>1, Zenon
<1>6. PICK n : n = CHOOSE nx : nx = Loop(nx)
  OBVIOUS
<1>7. n = Loop(n)
  BY <1>5, <1>6, Zenon
<1>8. \A p : ValidFrom(p) = n[p]
  BY <1>6, Zenon DEF ValidFrom
<1>9. \A q \in Positions : n[q] = IF q = NoPosition \/ IsValid(q) THEN q ELSE n[Advance(q)]
  BY <1>7, Zenon
<1> HIDE DEF Loop
<1>10. n[NoPosition] = NoPosition
  BY <1>9 DEF Positions
<1>11. ASSUME NEW k \in 1 .. L
       PROVE  n[At(k)] = IF IsValid(At(k)) THEN At(k) ELSE n[At(k + 1)]
  <2>1. At(k) \in Places /\ Order(At(k)) = k /\ At(k) # NoPosition
    BY <1>0, PlacesAre
  <2>2. Advance(At(k)) = At(k + 1) /\ At(k) \in Positions
    BY <1>0, <2>1, PlacesAre, RanksAre
  <2>3. QED BY <1>9, <2>1, <2>2, Zenon
<1>12. PICK G : G = {k \in 1 .. L + 1 : FirstAt(k, n[At(k)])}
  OBVIOUS
<1>13. L + 1 \in G
  <2>1. n[At(L + 1)] = NoPosition /\ Rank(NoPosition) = L + 1
    BY <1>0, <1>10, PlacesAre DEF Rank
  <2>2. \A w \in InUse : Order(w) \in 1 .. L
    BY <1>0, PlacesAre DEF InUse
  <2>3. FirstAt(L + 1, NoPosition)
    BY <2>1, <2>2 DEF FirstAt
  <2>4. QED BY <1>12, <2>1, <2>3
<1>14. \A k \in 1 .. L : k + 1 \in G => k \in G
  <2>1. ASSUME NEW k \in 1 .. L, k + 1 \in G PROVE k \in G
    <3>1. FirstAt(k + 1, n[At(k + 1)]) /\ k \in 1 .. L + 1
      BY <1>12, <2>1
    <3>2. At(k) \in Places /\ Order(At(k)) = k /\ Rank(At(k)) = k
      BY <1>0, <3>1, PlacesAre, RanksAre
    <3>3. CASE IsValid(At(k))
      <4>1. n[At(k)] = At(k) /\ At(k) \in InUse
        BY <1>11, <3>2, <3>3 DEF InUse
      <4>2. FirstAt(k, At(k))
        BY <3>2, <4>1 DEF FirstAt
      <4>3. QED BY <1>12, <3>1, <4>1, <4>2
    <3>4. CASE ~IsValid(At(k))
      <4>1. n[At(k)] = n[At(k + 1)]
        BY <1>11, <3>4
      <4>2. ASSUME NEW w \in InUse, Order(w) >= k PROVE Order(w) >= k + 1
        <5>1. Order(w) \in 1 .. L /\ At(Order(w)) = w /\ IsValid(w)
          BY <1>0, PlacesAre DEF InUse
        <5>2. Order(w) # k
          BY <3>4, <5>1
        <5>3. QED BY <4>2, <5>1, <5>2
      <4>3. PICK v : v = n[At(k + 1)]
        OBVIOUS
      <4>4. Rank(v) \in Nat
        <5>1. v \in Positions
          BY <3>1, <4>3 DEF FirstAt, InUse, Positions, Places
        <5>2. QED BY <1>0, <5>1, RanksAre
      <4>5. FirstAt(k, v)
        <5>1. FirstAt(k + 1, v)
          BY <3>1, <4>3
        <5>2. v \in InUse \cup {NoPosition} /\ Rank(v) >= k + 1
          BY <5>1 DEF FirstAt
        <5>3. Rank(v) >= k
          BY <4>4, <5>2
        <5>4. \A w \in InUse : Order(w) >= k => Order(w) >= Rank(v)
          BY <4>2, <5>1 DEF FirstAt
        <5>5. QED BY <5>2, <5>3, <5>4 DEF FirstAt
      <4>6. QED BY <1>12, <3>1, <4>1, <4>3, <4>5
    <3>5. QED BY <3>3, <3>4
  <2>2. QED BY <2>1
<1>15. \A k \in 1 .. L + 1 : FirstAt(k, n[At(k)])
  <2>1. \A k \in 1 .. L + 1 : k \in G
    BY <1>13, <1>14, FromTheLast
  <2>2. QED BY <1>12, <2>1
<1>16. \A p \in Positions : FirstAt(Rank(p), n[p])
  <2>1. \A p \in Positions : Rank(p) \in 1 .. L + 1 /\ At(Rank(p)) = p
    BY <1>0, RanksAre
  <2>2. QED BY <1>15, <2>1, Zenon
<1>17. \A p \in InUse : n[p] = p
  BY <1>9 DEF InUse, Positions, Places
<1>18. QED BY <1>0, <1>8, <1>10, <1>11, <1>16, <1>17

-----------------------------------------------------------------------------
(* What a loop gives.                                                       *)

LEMMA Prepended ==
  ASSUME NEW S, NEW p \in S, NEW s \in Seq(S), NEW T, IsFiniteSet(T), p \notin T, IsSetOf(s, T)
  PROVE  /\ <<p>> \o s \in Seq(S)
         /\ IsFiniteSet(T \cup {p})
         /\ IsSetOf(<<p>> \o s, T \cup {p})
<1>1. PICK t : t = <<p>> \o s
  OBVIOUS
<1>2. <<p>> \in Seq(S) /\ Len(<<p>>) = 1 /\ <<p>>[1] = p
  OBVIOUS
<1>3. t \in Seq(S) /\ Len(t) = 1 + Len(s)
  BY <1>1, <1>2, ConcatProperties
<1>4. \A i \in 1 .. Len(s) + 1 : t[i] = IF i = 1 THEN p ELSE s[i - 1]
  BY <1>1, <1>2
<1>5. DOMAIN t = 1 .. Len(s) + 1 /\ DOMAIN s = 1 .. Len(s) /\ Len(s) \in Nat
  BY <1>3
<1>6. {t[i] : i \in DOMAIN t} = T \cup {p}
  <2>1. T = {s[i] : i \in 1 .. Len(s)}
    BY <1>5 DEF IsSetOf
  <2>2. ASSUME NEW i \in 1 .. Len(s) + 1 PROVE t[i] \in T \cup {p}
    <3>1. CASE i = 1
      BY <1>4, <3>1
    <3>2. CASE i # 1
      <4>1. i - 1 \in 1 .. Len(s) /\ t[i] = s[i - 1]
        BY <1>4, <1>5, <3>2
      <4>2. QED BY <2>1, <4>1
    <3>3. QED BY <3>1, <3>2
  <2>3. ASSUME NEW x \in T \cup {p} PROVE \E i \in 1 .. Len(s) + 1 : x = t[i]
    <3>1. CASE x = p
      <4>1. 1 \in 1 .. Len(s) + 1 /\ t[1] = p
        BY <1>4, <1>5
      <4>2. QED BY <3>1, <4>1
    <3>2. CASE x # p
      <4>1. PICK i \in 1 .. Len(s) : x = s[i]
        BY <2>1, <3>2
      <4>2. PICK j \in Nat : j = i + 1
        BY <1>5
      <4>3. j \in 1 .. Len(s) + 1 /\ j # 1 /\ j - 1 = i
        BY <1>5, <4>2
      <4>4. t[j] = s[i]
        BY <1>4, <4>3
      <4>5. QED BY <4>1, <4>3, <4>4
    <3>3. QED BY <3>1, <3>2
  <2>4. QED BY <1>5, <2>2, <2>3, Zenon
<1>7. IsFiniteSet(T \cup {p}) /\ Cardinality(T \cup {p}) = Cardinality(T) + 1
  BY FS_AddElement
<1>8. Len(t) = Cardinality(T \cup {p})
  <2>1. Len(s) = Cardinality(T)
    BY DEF IsSetOf
  <2>2. QED BY <1>3, <1>5, <1>7, <2>1
<1>9. QED BY <1>1, <1>3, <1>6, <1>7, <1>8 DEF IsSetOf

LEMMA BeginIs == ASSUME blocks \in Seq(BlockType) PROVE Begin = ValidFrom(At(1))
<1>1. CASE blocks = <<>>
  <2>1. Last = 0
    <3>1. Len(blocks) = 0
      BY <1>1
    <3>2. PICK U \in Nat : U = unitsPerPageBlock
      BY BlocksHaveUnits
    <3>3. QED BY <3>1, <3>2 DEF Last
  <2>2. At(1) = NoPosition
    BY <2>1, PlacesAre
  <2>3. ValidFrom(NoPosition) = NoPosition
    BY ValidFromIs
  <2>4. QED BY <1>1, <2>2, <2>3 DEF Begin
<1>2. CASE blocks # <<>>
  <2>1. PICK U \in Nat \ {0}, L \in Nat \ {0} : U = unitsPerPageBlock /\ L = Len(blocks)
    BY <1>2, BlocksHaveUnits
  <2>2. PICK p : p = <<1, 0>>
    OBVIOUS
  <2>3. 1 \in BlockNumbers /\ 0 \in Units
    BY <2>1 DEF BlockNumbers, Units
  <2>4. p \in Places
    BY <2>2, <2>3 DEF Places
  <2>5. Order(p) = 1
    <3>1. p[1] = 1 /\ p[2] = 0
      BY <2>2
    <3>2. Order(p) = (1 - 1) * U + 0 + 1
      BY <2>1, <3>1 DEF Order
    <3>3. QED BY <3>2
  <2>6. At(1) = p
    BY <2>4, <2>5, PlacesAre
  <2>7. QED BY <1>2, <2>2, <2>6 DEF Begin
<1>3. QED BY <1>1, <1>2

\* The elements at place k and behind it.
Behind(k) == {w \in InUse : Order(w) >= k}

LEMMA BehindIs ==
  ASSUME blocks \in Seq(BlockType)
  PROVE  /\ Behind(Last + 1) = {}
         /\ Behind(1) = InUse
         /\ \A k \in 1 .. Last :
              /\ IsValid(At(k)) => /\ Behind(k) = Behind(k + 1) \cup {At(k)}
                                   /\ At(k) \notin Behind(k + 1)
              /\ ~IsValid(At(k)) => Behind(k) = Behind(k + 1)
<1>1. PICK L \in Nat : L = Last
  BY PlacesAre
<1>2. \A w \in InUse : Order(w) \in 1 .. L /\ At(Order(w)) = w /\ IsValid(w)
  BY <1>1, PlacesAre DEF InUse
<1>3. Behind(Last + 1) = {} /\ Behind(1) = InUse
  BY <1>1, <1>2 DEF Behind
<1>4. ASSUME NEW k \in 1 .. L
      PROVE  /\ IsValid(At(k)) => /\ Behind(k) = Behind(k + 1) \cup {At(k)}
                                  /\ At(k) \notin Behind(k + 1)
             /\ ~IsValid(At(k)) => Behind(k) = Behind(k + 1)
  <2>1. At(k) \in Places /\ Order(At(k)) = k
    BY <1>1, PlacesAre
  <2>2. ASSUME NEW w \in InUse PROVE Order(w) >= k <=> Order(w) >= k + 1 \/ w = At(k)
    <3>1. Order(w) \in 1 .. L /\ At(Order(w)) = w
      BY <1>2
    <3>2. CASE w = At(k)
      BY <2>1, <3>2
    <3>3. CASE w # At(k)
      <4>1. Order(w) # k
        BY <3>1, <3>3
      <4>2. QED BY <3>1, <3>3, <4>1
    <3>4. QED BY <3>2, <3>3
  <2>3. At(k) \notin Behind(k + 1)
    BY <2>1 DEF Behind
  <2>4. ASSUME IsValid(At(k)) PROVE Behind(k) = Behind(k + 1) \cup {At(k)}
    <3>1. At(k) \in InUse
      BY <2>1, <2>4 DEF InUse
    <3>2. QED BY <2>2, <3>1, Zenon DEF Behind
  <2>5. ASSUME ~IsValid(At(k)) PROVE Behind(k) = Behind(k + 1)
    <3>1. \A w \in InUse : w # At(k)
      BY <1>2, <2>5
    <3>2. QED BY <2>2, <3>1, Zenon DEF Behind
  <2>6. QED BY <2>3, <2>4, <2>5
<1>5. QED BY <1>1, <1>3, <1>4

LEMMA ElementsAre ==
  ASSUME blocks \in Seq(BlockType)
  PROVE  IsFiniteSet(InUse) /\ IsSetOf(Elements, InUse)
<1> DEFINE Loop(from) == [p \in Positions |->
             IF p = NoPosition THEN <<>> ELSE <<p>> \o from[ValidFrom(Advance(p))]]
<1>1. PICK L \in Nat : L = Last
  BY PlacesAre
<1>2. PICK step : step = [k \in 1 .. L |-> [s \in Seq(Places) |->
                            IF IsValid(At(k)) THEN <<At(k)>> \o s ELSE s]]
  OBVIOUS
<1>3. step \in [1 .. L -> [Seq(Places) -> Seq(Places)]]
  <2>1. ASSUME NEW k \in 1 .. L
        PROVE  [s \in Seq(Places) |-> IF IsValid(At(k)) THEN <<At(k)>> \o s ELSE s]
                 \in [Seq(Places) -> Seq(Places)]
    <3>1. <<At(k)>> \in Seq(Places)
      BY <1>1, PlacesAre
    <3>2. \A s \in Seq(Places) : <<At(k)>> \o s \in Seq(Places)
      BY <3>1, ConcatProperties
    <3>3. QED BY <3>2
  <2>2. QED BY <1>2, <2>1, Zenon
<1>4. PICK f \in [1 .. L + 1 -> Seq(Places)] :
        f[L + 1] = <<>> /\ \A k \in 1 .. L : f[k] = step[k][f[k + 1]]
  <2>1. <<>> \in Seq(Places)
    OBVIOUS
  <2>2. Definable(L, Seq(Places), <<>>, step)
    BY <1>3, <2>1, Downwards, Zenon
  <2>3. QED BY <2>2 DEF Definable
<1>5. \A k \in 1 .. L :
        /\ f[k + 1] \in Seq(Places)
        /\ f[k] = IF IsValid(At(k)) THEN <<At(k)>> \o f[k + 1] ELSE f[k + 1]
  <2>1. ASSUME NEW k \in 1 .. L
        PROVE  /\ f[k + 1] \in Seq(Places)
               /\ f[k] = IF IsValid(At(k)) THEN <<At(k)>> \o f[k + 1] ELSE f[k + 1]
    <3>1. k + 1 \in 1 .. L + 1
      OBVIOUS
    <3>2. f[k + 1] \in Seq(Places)
      BY <3>1, Zenon
    <3>3. f[k] = step[k][f[k + 1]]
      BY <1>4
    <3>4. QED BY <1>2, <3>2, <3>3, Zenon
  <2>2. QED BY <2>1
<1>6. \A k \in 1 .. L + 1 : IsFiniteSet(Behind(k)) /\ IsSetOf(f[k], Behind(k))
  <2>1. PICK G : G = {k \in 1 .. L + 1 : IsFiniteSet(Behind(k)) /\ IsSetOf(f[k], Behind(k))}
    OBVIOUS
  <2>2. L + 1 \in G
    <3>1. Behind(L + 1) = {} /\ f[L + 1] = <<>>
      BY <1>1, <1>4, BehindIs
    <3>2. IsFiniteSet({}) /\ IsSetOf(<<>>, {})
      BY FS_EmptySet DEF IsSetOf
    <3>3. L + 1 \in 1 .. L + 1
      OBVIOUS
    <3>4. QED BY <2>1, <3>1, <3>2, <3>3
  <2>3. ASSUME NEW k \in 1 .. L, k + 1 \in G PROVE k \in G
    <3>1. IsFiniteSet(Behind(k + 1)) /\ IsSetOf(f[k + 1], Behind(k + 1)) /\ k \in 1 .. L + 1
      BY <2>1, <2>3
    <3>2. CASE IsValid(At(k))
      <4>1. /\ Behind(k) = Behind(k + 1) \cup {At(k)} /\ At(k) \notin Behind(k + 1)
            /\ f[k] = <<At(k)>> \o f[k + 1]
        BY <1>1, <1>5, <3>2, BehindIs
      <4>2. At(k) \in Places /\ f[k + 1] \in Seq(Places)
        BY <1>1, <1>5, PlacesAre
      <4>3. /\ IsFiniteSet(Behind(k + 1) \cup {At(k)})
            /\ IsSetOf(<<At(k)>> \o f[k + 1], Behind(k + 1) \cup {At(k)})
        BY <3>1, <4>1, <4>2, Prepended
      <4>4. QED BY <2>1, <3>1, <4>1, <4>3
    <3>3. CASE ~IsValid(At(k))
      <4>1. Behind(k) = Behind(k + 1) /\ f[k] = f[k + 1]
        BY <1>1, <1>5, <3>3, BehindIs
      <4>2. QED BY <2>1, <3>1, <4>1
    <3>4. QED BY <3>2, <3>3
  <2>4. \A k \in 1 .. L + 1 : k \in G
    BY <2>2, <2>3, FromTheLast
  <2>5. QED BY <2>1, <2>4
<1>7. ASSUME NEW h, h[NoPosition] = <<>>,
             \A k \in 1 .. L : IsValid(At(k)) /\ f[k + 1] = h[ValidFrom(At(k + 1))]
                                 => h[At(k)] = <<At(k)>> \o f[k + 1]
      PROVE  \A k \in 1 .. L + 1 : f[k] = h[ValidFrom(At(k))]
  <2>1. PICK G : G = {k \in 1 .. L + 1 : f[k] = h[ValidFrom(At(k))]}
    OBVIOUS
  <2>2. L + 1 \in G
    <3>1. At(L + 1) = NoPosition /\ ValidFrom(NoPosition) = NoPosition
      BY <1>1, PlacesAre, ValidFromIs
    <3>2. f[L + 1] = <<>> /\ L + 1 \in 1 .. L + 1
      BY <1>4
    <3>3. QED BY <1>7, <2>1, <3>1, <3>2
  <2>3. ASSUME NEW k \in 1 .. L, k + 1 \in G PROVE k \in G
    <3>1. f[k + 1] = h[ValidFrom(At(k + 1))] /\ k \in 1 .. L + 1
      BY <2>1, <2>3
    <3>2. CASE IsValid(At(k))
      <4>1. At(k) \in InUse
        BY <1>1, <3>2, PlacesAre DEF InUse
      <4>2. ValidFrom(At(k)) = At(k)
        BY <4>1, ValidFromIs
      <4>3. h[At(k)] = <<At(k)>> \o f[k + 1] /\ f[k] = <<At(k)>> \o f[k + 1]
        BY <1>5, <1>7, <3>1, <3>2
      <4>4. QED BY <2>1, <3>1, <4>2, <4>3
    <3>3. CASE ~IsValid(At(k))
      <4>1. ValidFrom(At(k)) = ValidFrom(At(k + 1)) /\ f[k] = f[k + 1]
        BY <1>1, <1>5, <3>3, ValidFromIs
      <4>2. QED BY <2>1, <3>1, <4>1
    <3>4. QED BY <3>2, <3>3
  <2>4. \A k \in 1 .. L + 1 : k \in G
    BY <2>2, <2>3, FromTheLast
  <2>5. QED BY <2>1, <2>4
<1>8. \E h : h = Loop(h)
  <2>1. PICK h : h = [p \in Positions |-> IF p = NoPosition THEN <<>> ELSE <<p>> \o f[Rank(p) + 1]]
    OBVIOUS
  <2>2. NoPosition \in Positions /\ \A k \in 1 .. L : At(k) \in Positions /\ Rank(At(k)) = k
                                                   /\ At(k) # NoPosition
    BY <1>1, RanksAre, PlacesAre DEF Positions
  <2>3. h[NoPosition] = <<>> /\ \A k \in 1 .. L : h[At(k)] = <<At(k)>> \o f[k + 1]
    BY <2>1, <2>2
  <2>4. \A k \in 1 .. L + 1 : f[k] = h[ValidFrom(At(k))]
    BY <1>7, <2>3
  <2>5. ASSUME NEW p \in Positions, p # NoPosition
        PROVE  f[Rank(p) + 1] = h[ValidFrom(Advance(p))]
    <3>1. PICK k \in 1 .. L : k = Rank(p) /\ Advance(p) = At(k + 1)
      BY <1>1, <2>5, RanksAre, PlacesAre
    <3>2. k + 1 \in 1 .. L + 1
      OBVIOUS
    <3>3. QED BY <2>4, <3>1, <3>2
  <2>6. h = Loop(h)
    BY <2>1, <2>5, Zenon
  <2>7. QED BY <2>6
<1>9. PICK g : g = CHOOSE from : from = Loop(from)
  OBVIOUS
<1>10. g = Loop(g)
  BY <1>8, <1>9, Zenon
<1>11. Elements = g[Begin]
  BY <1>9, Zenon DEF Elements
<1>12. \A p \in Positions :
         g[p] = IF p = NoPosition THEN <<>> ELSE <<p>> \o g[ValidFrom(Advance(p))]
  BY <1>10, Zenon
<1> HIDE DEF Loop
<1>13. g[NoPosition] = <<>>
  BY <1>12 DEF Positions
<1>14. ASSUME NEW k \in 1 .. L, f[k + 1] = g[ValidFrom(At(k + 1))]
       PROVE  g[At(k)] = <<At(k)>> \o f[k + 1]
  <2>1. At(k) \in Positions /\ At(k) # NoPosition /\ Advance(At(k)) = At(k + 1)
    BY <1>1, RanksAre, PlacesAre
  <2>2. QED BY <1>12, <1>14, <2>1, Zenon
<1>15. \A k \in 1 .. L + 1 : f[k] = g[ValidFrom(At(k))]
  BY <1>7, <1>13, <1>14
<1>16. 1 \in 1 .. L + 1
  OBVIOUS
<1>17. Elements = f[1]
  BY <1>11, <1>15, <1>16, BeginIs
<1>18. Behind(1) = InUse
  BY BehindIs
<1>19. QED BY <1>6, <1>16, <1>17, <1>18

-----------------------------------------------------------------------------
(* The blocks.                                                              *)

\* allocatedUnits is the number of bits set.
Counted == \A b \in BlockNumbers : blocks[b].allocatedUnits = Cardinality(blocks[b].bitmap)

LEMMA BitmapsAre ==
  ASSUME blocks \in Seq(BlockType), NEW b \in BlockNumbers
  PROVE  /\ blocks[b].bitmap \subseteq Units /\ blocks[b].allocatedUnits \in Nat
         /\ IsFiniteSet(blocks[b].bitmap)
         /\ {w \in InUse : w[1] = b} = {b} \X blocks[b].bitmap
<1>1. blocks[b].bitmap \subseteq Units /\ blocks[b].allocatedUnits \in Nat
  <2>1. blocks[b] \in BlockType
    BY DEF BlockNumbers
  <2>2. QED BY <2>1 DEF BlockType
<1>2. IsFiniteSet(Units)
  <2>1. unitsPerPageBlock - 1 \in Int /\ 0 \in Int
    BY BlocksHaveUnits
  <2>2. QED BY <2>1, FS_Interval DEF Units
<1>3. IsFiniteSet(blocks[b].bitmap)
  BY <1>1, <1>2, FS_Subset
<1>4. ASSUME NEW w PROVE w \in InUse /\ w[1] = b <=> w \in {b} \X blocks[b].bitmap
  <2>1. ASSUME w \in InUse, w[1] = b PROVE w \in {b} \X blocks[b].bitmap
    BY <2>1 DEF InUse, Places, IsValid
  <2>2. ASSUME w \in {b} \X blocks[b].bitmap PROVE w \in InUse /\ w[1] = b
    BY <1>1, <2>2 DEF InUse, Places, IsValid
  <2>3. QED BY <2>1, <2>2
<1>5. {w \in InUse : w[1] = b} = {b} \X blocks[b].bitmap
  <2>1. PICK A, B : A = {w \in InUse : w[1] = b} /\ B = {b} \X blocks[b].bitmap
    OBVIOUS
  <2>2. \A w : w \in A <=> w \in B
    BY <1>4, <2>1
  <2>3. QED BY <2>1, <2>2
<1>6. QED BY <1>1, <1>3, <1>5

LEMMA SizeIs ==
  ASSUME blocks \in Seq(BlockType), Counted
  PROVE  Size = Cardinality(InUse)
<1> DEFINE Loop(from) == [b \in 1 .. Len(blocks) + 1 |->
             IF b > Len(blocks) THEN 0 ELSE blocks[b].allocatedUnits + from[b + 1]]
<1>1. PICK L \in Nat : L = Len(blocks)
  OBVIOUS
<1>2. ASSUME NEW b \in 1 .. L
      PROVE  /\ b \in BlockNumbers /\ blocks[b].allocatedUnits \in Nat
             /\ blocks[b].allocatedUnits = Cardinality(blocks[b].bitmap)
  <2>1. b \in BlockNumbers
    BY <1>1 DEF BlockNumbers
  <2>2. QED BY <2>1, BitmapsAre DEF Counted
<1>3. PICK step : step = [b \in 1 .. L |-> [x \in Nat |-> blocks[b].allocatedUnits + x]]
  OBVIOUS
<1>4. step \in [1 .. L -> [Nat -> Nat]]
  <2>1. ASSUME NEW b \in 1 .. L
        PROVE  [x \in Nat |-> blocks[b].allocatedUnits + x] \in [Nat -> Nat]
    BY <1>2
  <2>2. QED BY <1>3, <2>1, Zenon
<1>5. PICK f \in [1 .. L + 1 -> Nat] :
        f[L + 1] = 0 /\ \A b \in 1 .. L : f[b] = step[b][f[b + 1]]
  <2>1. 0 \in Nat
    OBVIOUS
  <2>2. Definable(L, Nat, 0, step)
    BY <1>4, <2>1, Downwards, Zenon
  <2>3. QED BY <2>2 DEF Definable
<1>6. \A b \in 1 .. L : f[b] = blocks[b].allocatedUnits + f[b + 1]
  <2>1. ASSUME NEW b \in 1 .. L PROVE f[b] = blocks[b].allocatedUnits + f[b + 1]
    <3>1. b + 1 \in 1 .. L + 1
      OBVIOUS
    <3>2. f[b + 1] \in Nat
      BY <3>1, Zenon
    <3>3. f[b] = step[b][f[b + 1]]
      BY <1>5
    <3>4. QED BY <1>3, <3>2, <3>3, Zenon
  <2>2. QED BY <2>1
<1>7. \E h : h = Loop(h)
  <2>1. f = [b \in 1 .. L + 1 |-> f[b]]
    OBVIOUS
  <2>2. \A b \in 1 .. L + 1 : f[b] = IF b > L THEN 0 ELSE blocks[b].allocatedUnits + f[b + 1]
    BY <1>5, <1>6
  <2>3. f = Loop(f)
    BY <1>1, <2>1, <2>2, Zenon
  <2>4. QED BY <2>3
<1>8. PICK g : g = CHOOSE from : from = Loop(from)
  OBVIOUS
<1>9. g = Loop(g)
  BY <1>7, <1>8, Zenon
<1>10. Size = g[1]
  BY <1>8, Zenon DEF Size
<1>11. \A b \in 1 .. L + 1 : g[b] = IF b > L THEN 0 ELSE blocks[b].allocatedUnits + g[b + 1]
  BY <1>1, <1>9, Zenon
<1> HIDE DEF Loop
<1>12. PICK In : In = [b \in 1 .. L + 1 |-> {w \in InUse : w[1] >= b}]
  OBVIOUS
<1>13. \A w \in InUse : w[1] \in 1 .. L
  BY <1>1 DEF InUse, Places, BlockNumbers
<1>14. PICK G : G = {b \in 1 .. L + 1 : g[b] = Cardinality(In[b]) /\ g[b] \in Nat}
  OBVIOUS
<1>15. L + 1 \in G
  <2>1. In[L + 1] = {}
    BY <1>12, <1>13
  <2>2. L + 1 \in 1 .. L + 1 /\ g[L + 1] = 0
    BY <1>11
  <2>3. Cardinality(In[L + 1]) = 0
    BY <2>1, FS_EmptySet, Zenon
  <2>4. QED BY <1>14, <2>2, <2>3
<1>16. ASSUME NEW b \in 1 .. L, b + 1 \in G PROVE b \in G
  <2>1. g[b + 1] = Cardinality(In[b + 1]) /\ g[b + 1] \in Nat /\ b \in 1 .. L + 1
    BY <1>14, <1>16
  <2>2. PICK B : B = {w \in InUse : w[1] = b}
    OBVIOUS
  <2>3. In[b] = In[b + 1] \cup B /\ In[b + 1] \cap B = {} /\ In[b + 1] \subseteq InUse /\ B \subseteq InUse
    <3>1. \A w \in InUse : /\ w[1] >= b <=> w[1] >= b + 1 \/ w[1] = b
                           /\ ~(w[1] >= b + 1 /\ w[1] = b)
      BY <1>13
    <3>2. b + 1 \in 1 .. L + 1
      OBVIOUS
    <3>3. In[b] = {w \in InUse : w[1] >= b} /\ In[b + 1] = {w \in InUse : w[1] >= b + 1}
      BY <1>12, <2>1, <3>2
    <3>4. QED BY <2>2, <3>1, <3>3, Zenon
  <2>4. IsFiniteSet(In[b + 1]) /\ IsFiniteSet(B)
    BY <2>3, ElementsAre, FS_Subset
  <2>5. Cardinality(B) = Cardinality(blocks[b].bitmap)
    <3>1. B = {b} \X blocks[b].bitmap /\ IsFiniteSet(blocks[b].bitmap)
      BY <1>2, <2>2, BitmapsAre
    <3>2. IsFiniteSet({b}) /\ Cardinality({b}) = 1
      BY FS_Singleton
    <3>3. Cardinality({b} \X blocks[b].bitmap) = Cardinality({b}) * Cardinality(blocks[b].bitmap)
      BY <3>1, <3>2, FS_Product
    <3>4. Cardinality(blocks[b].bitmap) \in Nat
      BY <1>2
    <3>5. QED BY <3>1, <3>2, <3>3, <3>4
  <2>6. Cardinality(In[b]) = Cardinality(In[b + 1]) + Cardinality(B)
    <3>1. Cardinality(In[b + 1] \cup B) =
            Cardinality(In[b + 1]) + Cardinality(B) - Cardinality(In[b + 1] \cap B)
      BY <2>4, FS_Union
    <3>2. Cardinality(In[b + 1] \cap B) = 0
      BY <2>3, FS_EmptySet, Zenon
    <3>3. Cardinality(In[b + 1]) \in Nat /\ Cardinality(B) \in Nat
      BY <1>2, <2>1, <2>5
    <3>4. Cardinality(In[b + 1] \cup B) = Cardinality(In[b + 1]) + Cardinality(B)
      BY <3>1, <3>2, <3>3
    <3>5. QED BY <2>3, <3>4, Zenon
  <2>7. g[b] = blocks[b].allocatedUnits + g[b + 1]
    BY <1>11, <2>1
  <2>8. PICK i \in Nat, j \in Nat :
           i = Cardinality(B) /\ j = Cardinality(In[b + 1]) /\ i = blocks[b].allocatedUnits /\ j = g[b + 1]
    <3>1. Cardinality(B) = blocks[b].allocatedUnits /\ Cardinality(B) \in Nat
      BY <1>2, <2>5
    <3>2. QED BY <2>1, <3>1, Zenon
  <2>9. g[b] = i + j /\ Cardinality(In[b]) = j + i
    <3>1. g[b] = i + j
      BY <2>7, <2>8, Zenon
    <3>2. Cardinality(In[b]) = j + i
      BY <2>6, <2>8, Zenon
    <3>3. QED BY <3>1, <3>2
  <2>10. g[b] = Cardinality(In[b]) /\ g[b] \in Nat
    BY <2>9
  <2>11. QED BY <1>14, <2>1, <2>10
<1>17. \A b \in 1 .. L + 1 : b \in G
  BY <1>15, <1>16, FromTheLast
<1>18. g[1] = Cardinality(In[1])
  BY <1>14, <1>17
<1>19. In[1] = InUse
  BY <1>12, <1>13
<1>20. QED BY <1>10, <1>18, <1>19

LEMMA BlockToUseIs ==
  ASSUME blocks \in Seq(BlockType)
  PROVE  /\ BlockToUse \in 1 .. Len(blocks) + 1
         /\ BlockToUse <= Len(blocks) =>
              blocks[BlockToUse].allocatedUnits # unitsPerPageBlock
<1> DEFINE Loop(from) == [b \in 1 .. Len(blocks) + 1 |->
             IF b > Len(blocks) \/ blocks[b].allocatedUnits # unitsPerPageBlock
             THEN b ELSE from[b + 1]]
<1>1. PICK L \in Nat : L = Len(blocks)
  OBVIOUS
<1>3. PICK step : step = [b \in 1 .. L |-> [x \in 1 .. L + 1 |->
                            IF blocks[b].allocatedUnits # unitsPerPageBlock THEN b ELSE x]]
  OBVIOUS
<1>4. step \in [1 .. L -> [1 .. L + 1 -> 1 .. L + 1]]
  <2>1. ASSUME NEW b \in 1 .. L
        PROVE  [x \in 1 .. L + 1 |-> IF blocks[b].allocatedUnits # unitsPerPageBlock THEN b ELSE x]
                 \in [1 .. L + 1 -> 1 .. L + 1]
    <3>1. b \in 1 .. L + 1
      OBVIOUS
    <3>2. QED BY <3>1
  <2>2. QED BY <1>3, <2>1, Zenon
<1>5. PICK f \in [1 .. L + 1 -> 1 .. L + 1] :
        f[L + 1] = L + 1 /\ \A b \in 1 .. L : f[b] = step[b][f[b + 1]]
  <2>1. L + 1 \in 1 .. L + 1
    OBVIOUS
  <2>2. Definable(L, 1 .. L + 1, L + 1, step)
    BY <1>4, <2>1, Downwards, Zenon
  <2>3. QED BY <2>2 DEF Definable
<1>6. \A b \in 1 .. L :
        f[b] = IF blocks[b].allocatedUnits # unitsPerPageBlock THEN b ELSE f[b + 1]
  <2>1. ASSUME NEW b \in 1 .. L
        PROVE  f[b] = IF blocks[b].allocatedUnits # unitsPerPageBlock THEN b ELSE f[b + 1]
    <3>1. b + 1 \in 1 .. L + 1
      OBVIOUS
    <3>2. f[b + 1] \in 1 .. L + 1
      BY <3>1, Zenon
    <3>3. f[b] = step[b][f[b + 1]]
      BY <1>5
    <3>4. QED BY <1>3, <3>2, <3>3, Zenon
  <2>2. QED BY <2>1
<1>7. \E h : h = Loop(h)
  <2>1. f = [b \in 1 .. L + 1 |-> f[b]]
    OBVIOUS
  <2>2. \A b \in 1 .. L + 1 :
          f[b] = IF b > L \/ blocks[b].allocatedUnits # unitsPerPageBlock THEN b ELSE f[b + 1]
    <3>1. ASSUME NEW b \in 1 .. L + 1
          PROVE  f[b] = IF b > L \/ blocks[b].allocatedUnits # unitsPerPageBlock
                        THEN b ELSE f[b + 1]
      <4>1. CASE b > L
        <5>1. b = L + 1
          BY <4>1
        <5>2. QED BY <1>5, <4>1, <5>1
      <4>2. CASE ~(b > L)
        <5>1. b \in 1 .. L
          BY <4>2
        <5>2. QED BY <1>6, <4>2, <5>1, Zenon
      <4>3. QED BY <4>1, <4>2
    <3>2. QED BY <3>1
  <2>3. f = Loop(f)
    BY <1>1, <2>1, <2>2, Zenon
  <2>4. QED BY <2>3
<1>8. PICK g : g = CHOOSE from : from = Loop(from)
  OBVIOUS
<1>9. g = Loop(g)
  BY <1>7, <1>8, Zenon
<1>10. BlockToUse = g[1]
  BY <1>8, Zenon DEF BlockToUse
<1>11. \A b \in 1 .. L + 1 :
         g[b] = IF b > L \/ blocks[b].allocatedUnits # unitsPerPageBlock THEN b ELSE g[b + 1]
  BY <1>1, <1>9, Zenon
<1> HIDE DEF Loop
<1> DEFINE Usable(b) == b \in 1 .. L + 1 /\ (b <= L => blocks[b].allocatedUnits # unitsPerPageBlock)
<1>12. ASSUME NEW b \in 1 .. L + 1,
              b > L \/ blocks[b].allocatedUnits # unitsPerPageBlock
       PROVE  Usable(g[b])
  <2>1. g[b] = b
    BY <1>11, <1>12
  <2>2. Usable(b)
    BY <1>12
  <2>3. QED BY <2>1, <2>2
<1>13. ASSUME NEW b \in 1 .. L, Usable(g[b + 1]) PROVE Usable(g[b])
  <2>1. b \in 1 .. L + 1 /\ ~(b > L)
    OBVIOUS
  <2>2. CASE blocks[b].allocatedUnits # unitsPerPageBlock
    BY <1>12, <2>1, <2>2
  <2>3. CASE ~(blocks[b].allocatedUnits # unitsPerPageBlock)
    <3>1. g[b] = g[b + 1]
      BY <1>11, <2>1, <2>3
    <3>2. QED BY <1>13, <3>1
  <2>4. QED BY <2>2, <2>3
<1>14. Usable(g[1])
  <2> HIDE DEF Usable
  <2>1. PICK G : G = {b \in 1 .. L + 1 : Usable(g[b])}
    OBVIOUS
  <2>2. L + 1 \in 1 .. L + 1 /\ L + 1 > L
    OBVIOUS
  <2>3. L + 1 \in G
    BY <1>12, <2>1, <2>2
  <2>4. \A b \in 1 .. L : b + 1 \in G => b \in G
    BY <1>13, <2>1
  <2>5. \A b \in 1 .. L + 1 : b \in G
    BY <2>3, <2>4, FromTheLast
  <2>6. QED BY <2>1, <2>5
<1>15. QED BY <1>1, <1>10, <1>14

-----------------------------------------------------------------------------
(* The invariant.                                                           *)

PoolTypeOK ==
  /\ blocks \in Seq(BlockType)
  /\ iter \in Positions
  /\ seen \in Seq(Nat \X Nat)
  /\ allocations \in Nat

Given == {seen[i] : i \in DOMAIN seen}

\* The loop gave each element that lasts, or it is still to come.
GivenOrAhead ==
  \A e \in lasting : e \in Given \/ (iter # NoPosition /\ Order(iter) < Order(e))

\* The loop gives elements in the order of their places, and is at the last of them.
GivenInOrder ==
  /\ \A i, j \in DOMAIN seen : i < j => Order(seen[i]) < Order(seen[j])
  /\ iter # NoPosition => \A i \in DOMAIN seen : Order(seen[i]) <= Order(iter)

PoolIInv ==
  /\ PoolTypeOK
  /\ Counted
  /\ live = InUse
  /\ lasting \subseteq live
  /\ GivenOrAhead
  /\ GivenInOrder

LEMMA OrderIs == \A p \in Nat \X Nat : Order(p) \in Int
<1>1. PICK U \in Nat : U = unitsPerPageBlock
  BY BlocksHaveUnits
<1>2. ASSUME NEW p \in Nat \X Nat PROVE Order(p) \in Int
  <2>1. PICK a \in Nat, c \in Nat : a = p[1] /\ c = p[2]
    OBVIOUS
  <2>2. (a - 1) * U + c + 1 \in Int
    OBVIOUS
  <2>3. QED BY <1>1, <2>1, <2>2, Zenon DEF Order
<1>3. QED BY <1>2

LEMMA PlacesPair == ASSUME blocks \in Seq(BlockType) PROVE Places \subseteq Nat \X Nat
<1>1. BlockNumbers \subseteq Nat /\ Units \subseteq Nat
  BY BlocksHaveUnits DEF BlockNumbers, Units
<1>2. QED BY <1>1 DEF Places

\* Where a loop goes from place k - 1.
LEMMA NextIs ==
  ASSUME blocks \in Seq(BlockType), NEW k \in 1 .. Last + 1, NEW v, v = ValidFrom(At(k))
  PROVE  /\ v \in Positions
         /\ v = NoPosition => \A w \in InUse : Order(w) < k
         /\ v # NoPosition =>
              /\ v \in InUse /\ Order(v) >= k
              /\ \A w \in InUse : Order(w) >= k => w = v \/ Order(v) < Order(w)
<1>1. PICK L \in Nat : L = Last
  BY PlacesAre
<1>2. At(k) \in Positions /\ Rank(At(k)) = k
  BY RanksAre
<1>3. FirstAt(k, v)
  BY <1>2, ValidFromIs
<1>4. v \in InUse \cup {NoPosition} /\ Rank(v) >= k
      /\ \A w \in InUse : Order(w) >= k => Order(w) >= Rank(v)
  BY <1>3 DEF FirstAt
<1>5. \A w \in InUse : Order(w) \in 1 .. L /\ At(Order(w)) = w
  BY <1>1, PlacesAre DEF InUse
<1>6. v \in Positions
  BY <1>4 DEF InUse, Places, Positions
<1>7. ASSUME v = NoPosition, NEW w \in InUse PROVE Order(w) < k
  <2>1. Rank(v) = L + 1
    BY <1>1, <1>7 DEF Rank
  <2>2. QED BY <1>4, <1>5, <2>1
<1>8. ASSUME v # NoPosition
      PROVE  /\ v \in InUse /\ Order(v) >= k
             /\ \A w \in InUse : Order(w) >= k => w = v \/ Order(v) < Order(w)
  <2>1. v \in InUse /\ Rank(v) = Order(v)
    BY <1>4, <1>8 DEF Rank
  <2>2. ASSUME NEW w \in InUse, Order(w) >= k, w # v PROVE Order(v) < Order(w)
    <3>1. Order(w) >= Order(v)
      BY <1>4, <2>1, <2>2
    <3>2. Order(w) # Order(v)
      BY <1>5, <2>1, <2>2
    <3>3. QED BY <1>5, <2>1, <3>1, <3>2
  <2>3. QED BY <1>4, <2>1, <2>2
<1>9. QED BY <1>6, <1>7, <1>8

-----------------------------------------------------------------------------
(* The steps.                                                               *)

\* What only the pool's elements changing keeps, of a loop that is open.
LEMMA LoopStays ==
  ASSUME PoolIInv, Positions \subseteq Positions', lasting' \subseteq lasting,
         UNCHANGED <<iter, seen>>
  PROVE  /\ iter' \in Positions' /\ seen' \in Seq(Nat \X Nat)
         /\ GivenOrAhead' /\ GivenInOrder'
<1>1. \A p : Order(p)' = Order(p)
  BY DEF Order
<1>2. GivenInOrder'
  BY DEF PoolIInv, GivenInOrder, Order
<1>3. GivenOrAhead'
  BY DEF PoolIInv, GivenOrAhead, Given, Order
<1>4. QED BY <1>2, <1>3 DEF PoolIInv, PoolTypeOK

IsBlock(N, C, m) == N \in BlockType /\ N.bitmap = C /\ N.allocatedUnits = m

LEMMA Updated ==
  ASSUME NEW Q \in BlockType, NEW C \in SUBSET Units, NEW m \in Nat
  PROVE  IsBlock([Q EXCEPT !.bitmap = C, !.allocatedUnits = m], C, m)
<1>1. PICK N : N = [Q EXCEPT !.bitmap = C, !.allocatedUnits = m]
  OBVIOUS
<1>2. N \in BlockType /\ N.bitmap = C /\ N.allocatedUnits = m
  BY <1>1 DEF BlockType
<1>3. QED BY <1>1, <1>2 DEF IsBlock

LEMMA AllocKeeps == PoolIInv /\ Alloc => PoolIInv'
<1>1. SUFFICES ASSUME PoolIInv, Alloc PROVE PoolIInv'
  OBVIOUS
<1>2. blocks \in Seq(BlockType) /\ Counted /\ live = InUse /\ lasting \subseteq live /\ allocations \in Nat
  BY <1>1 DEF PoolIInv, PoolTypeOK
<1>3. PICK L \in Nat : L = Len(blocks)
  BY <1>2
<1>4. PICK b \in 1 .. L + 1 :
        /\ b = BlockToUse
        /\ b <= L => blocks[b].allocatedUnits # unitsPerPageBlock
  BY <1>2, <1>3, BlockToUseIs
<1>5. PICK u : u = FreeUnit(b)
  OBVIOUS
<1>6. PICK M : M = Mapped(b)
  OBVIOUS
<1>7. /\ blocks' = [M EXCEPT ![b].bitmap = @ \cup {u}, ![b].allocatedUnits = @ + 1]
      /\ live' = live \cup {<<b, u>>}
      /\ allocations' = allocations + 1
      /\ UNCHANGED <<iter, seen, lasting>>
  BY <1>1, <1>4, <1>5, <1>6, Zenon DEF Alloc
<1>8. NewBlock \in BlockType
  BY DEF NewBlock, BlockType
<1>9. PICK K \in Nat :
        /\ M \in Seq(BlockType) /\ K = Len(M) /\ K >= L /\ b \in 1 .. K
        /\ K = IF b > L THEN L + 1 ELSE L
        /\ \A c \in 1 .. K : M[c] = IF c > L THEN NewBlock ELSE blocks[c]
  <2>1. CASE b > L
    <3>1. M = Append(blocks, NewBlock) /\ b = L + 1
      BY <1>3, <1>4, <1>6, <2>1 DEF Mapped
    <3>2. M \in Seq(BlockType) /\ Len(M) = L + 1
      BY <1>2, <1>3, <1>8, <3>1
    <3>3. \A c \in 1 .. L + 1 : M[c] = IF c > L THEN NewBlock ELSE blocks[c]
      BY <1>2, <1>3, <1>8, <3>1
    <3>4. QED BY <2>1, <3>1, <3>2, <3>3
  <2>2. CASE ~(b > L)
    <3>1. M = blocks /\ b \in 1 .. L
      BY <1>3, <1>4, <1>6, <2>2 DEF Mapped
    <3>2. QED BY <1>2, <1>3, <2>2, <3>1
  <2>3. QED BY <2>1, <2>2
<1>25. M \in [1 .. K -> BlockType] /\ b \in 1 .. K
  <2>1. M \in Seq(BlockType) /\ K = Len(M) /\ b \in 1 .. K
    BY <1>9
  <2>2. M \in [1 .. Len(M) -> BlockType]
    BY <2>1
  <2>3. QED BY <2>1, <2>2, Zenon
<1>10. PICK B \in SUBSET Units, n \in Nat :
         M[b].bitmap = B /\ M[b].allocatedUnits = n
  <2>1. M[b] \in BlockType
    BY <1>25, Zenon
  <2>2. M[b].bitmap \in SUBSET Units /\ M[b].allocatedUnits \in Nat
    BY <2>1 DEF BlockType
  <2>3. QED BY <2>2
<1>11. IsFiniteSet(B) /\ n = Cardinality(B) /\ u \in Units \ B
  <2>1. PICK U \in Nat \ {0} : U = unitsPerPageBlock
    BY BlocksHaveUnits
  <2>2. CASE b > L
    <3>1. B = {} /\ n = 0
      BY <1>9, <1>10, <2>2 DEF NewBlock
    <3>2. u = 0
      BY <1>3, <1>5, <2>2 DEF FreeUnit
    <3>3. 0 \in Units
      BY <2>1 DEF Units
    <3>4. QED BY <3>1, <3>2, <3>3, FS_EmptySet
  <2>3. CASE ~(b > L)
    <3>1. M[b] = blocks[b] /\ b \in BlockNumbers /\ b <= L
      BY <1>3, <1>9, <2>3 DEF BlockNumbers
    <3>2. B = blocks[b].bitmap /\ n = blocks[b].allocatedUnits
      BY <1>10, <3>1
    <3>3. IsFiniteSet(B) /\ n = Cardinality(B)
      BY <1>2, <3>1, <3>2, BitmapsAre DEF Counted
    <3>4. B # Units
      <4>1. Cardinality(0 .. U - 1) = U
        <5>1. 0 \in Int /\ U - 1 \in Int /\ ~(0 > U - 1) /\ U - 1 - 0 + 1 = U
          OBVIOUS
        <5>2. Cardinality(0 .. U - 1) = IF 0 > U - 1 THEN 0 ELSE U - 1 - 0 + 1
          BY <5>1, FS_Interval, Zenon
        <5>3. QED BY <5>1, <5>2
      <4>2. n # U
        BY <1>4, <2>1, <3>1, <3>2
      <4>3. Units = 0 .. U - 1
        BY <2>1 DEF Units
      <4>4. QED BY <3>3, <4>1, <4>2, <4>3
    <3>5. PICK R : R = Units \ B
      OBVIOUS
    <3>6. R \subseteq Nat /\ R # {}
      <4>1. R \subseteq 0 .. U - 1
        BY <2>1, <3>5 DEF Units
      <4>2. R # {}
        BY <3>4, <3>5
      <4>3. QED BY <4>1, <4>2
    <3>7. u = Min(R)
      BY <1>3, <1>5, <2>3, <3>2, <3>5 DEF FreeUnit
    <3>8. u \in R
      BY <3>6, <3>7, MinIs
    <3>9. QED BY <3>3, <3>5, <3>8
  <2>4. QED BY <2>2, <2>3
<1>12. PICK N : N = [M[b] EXCEPT !.bitmap = B \cup {u}, !.allocatedUnits = n + 1]
  OBVIOUS
<1>13. N \in BlockType /\ N.bitmap = B \cup {u} /\ N.allocatedUnits = n + 1
  <2>1. M[b] \in BlockType
    BY <1>25, Zenon
  <2>2. PICK C \in SUBSET Units : C = B \cup {u}
    BY <1>11
  <2>3. PICK Q \in BlockType, m \in Nat : Q = M[b] /\ m = n + 1
    BY <2>1
  <2>4. IsBlock([Q EXCEPT !.bitmap = C, !.allocatedUnits = m], C, m)
    BY Updated
  <2>5. IsBlock(N, C, m)
    BY <1>12, <2>2, <2>3, <2>4, Zenon
  <2>6. QED BY <2>2, <2>3, <2>5 DEF IsBlock
<1>14. blocks' = [M EXCEPT ![b] = N]
  <2>1. DOMAIN M = 1 .. K /\ b \in 1 .. K
    BY <1>25, Zenon
  <2>2. QED BY <1>7, <1>10, <1>12, <2>1
<1>15. /\ blocks' \in Seq(BlockType) /\ Len(blocks') = K
       /\ \A c \in 1 .. K : blocks'[c] = IF c = b THEN N ELSE M[c]
  <2>1. DOMAIN M = 1 .. K /\ M \in [1 .. K -> BlockType]
    BY <1>25, Zenon
  <2>2. blocks' \in [1 .. K -> BlockType]
    BY <1>13, <1>14, <2>1
  <2>3. \A c \in 1 .. K : blocks'[c] = IF c = b THEN N ELSE M[c]
    BY <1>14, <2>1
  <2>4. QED BY <2>2, <2>3
<1>16. BlockNumbers = 1 .. L /\ BlockNumbers' = 1 .. K /\ 1 .. L \subseteq 1 .. K
  BY <1>3, <1>9, <1>15 DEF BlockNumbers
<1>17. BlockType' = BlockType /\ Units' = Units
  BY DEF BlockType, Units
<1>18. Counted'
  <2>1. ASSUME NEW c \in 1 .. K
        PROVE  blocks'[c].allocatedUnits = Cardinality(blocks'[c].bitmap)
    <3>1. CASE c = b
      <4>1. blocks'[c] = N
        BY <1>15, <3>1
      <4>2. Cardinality(B \cup {u}) = n + 1
        BY <1>11, FS_AddElement
      <4>3. QED BY <1>13, <4>1, <4>2
    <3>2. CASE c # b /\ c > L
      <4>1. blocks'[c] = NewBlock
        BY <1>9, <1>15, <3>2
      <4>2. QED BY <4>1, FS_EmptySet DEF NewBlock
    <3>3. CASE c # b /\ ~(c > L)
      <4>1. blocks'[c] = blocks[c] /\ c \in BlockNumbers
        BY <1>9, <1>15, <1>16, <3>3
      <4>2. QED BY <1>2, <4>1 DEF Counted
    <3>4. QED BY <3>1, <3>2, <3>3
  <2>2. QED BY <1>16, <2>1 DEF Counted
<1>19. live' = InUse'
  <2>1. PICK I : I = InUse'
    OBVIOUS
  <2>2. \A p : p \in I <=> p \in (1 .. K) \X Units /\ p[2] \in blocks'[p[1]].bitmap
    BY <1>16, <1>17, <2>1 DEF InUse, Places, IsValid
  <2>3. \A p : p \in live <=> p \in (1 .. L) \X Units /\ p[2] \in blocks[p[1]].bitmap
    BY <1>2, <1>16 DEF InUse, Places, IsValid
  <2>4. b \in 1 .. K /\ u \in Units
    BY <1>9, <1>11
  <2>5. ASSUME NEW c \in 1 .. K, NEW v \in Units
        PROVE  <<c, v>> \in I <=> <<c, v>> \in live \/ (c = b /\ v = u)
    <3>1. <<c, v>> \in I <=> v \in blocks'[c].bitmap
      BY <2>2
    <3>2. <<c, v>> \in live <=> c \in 1 .. L /\ v \in blocks[c].bitmap
      BY <2>3
    <3>3. v \in M[c].bitmap <=> c \in 1 .. L /\ v \in blocks[c].bitmap
      <4>1. CASE c > L
        BY <1>9, <4>1 DEF NewBlock
      <4>2. CASE ~(c > L)
        <5>1. M[c] = blocks[c] /\ c \in 1 .. L
          BY <1>9, <4>2
        <5>2. QED BY <5>1
      <4>3. QED BY <4>1, <4>2
    <3>4. v \in blocks'[c].bitmap <=> v \in M[c].bitmap \/ (c = b /\ v = u)
      <4>1. CASE c = b
        <5>1. blocks'[c] = N /\ M[c].bitmap = B
          BY <1>10, <1>15, <4>1
        <5>2. QED BY <1>13, <4>1, <5>1
      <4>2. CASE c # b
        BY <1>15, <4>2
      <4>3. QED BY <4>1, <4>2
    <3>5. QED BY <3>1, <3>2, <3>3, <3>4, Zenon
  <2>6. \A p : p \in I <=> p \in live \/ p = <<b, u>>
    <3>1. ASSUME NEW p, p \in I PROVE p \in live \/ p = <<b, u>>
      <4>1. PICK c \in 1 .. K, v \in Units : p = <<c, v>>
        BY <2>2, <3>1
      <4>2. QED BY <2>5, <3>1, <4>1
    <3>2. ASSUME NEW p, p \in live PROVE p \in I
      <4>1. PICK c \in 1 .. L, v \in Units : p = <<c, v>>
        BY <2>3, <3>2
      <4>2. c \in 1 .. K
        BY <1>16
      <4>3. QED BY <2>5, <3>2, <4>1, <4>2
    <3>3. <<b, u>> \in I
      BY <2>4, <2>5
    <3>4. QED BY <3>1, <3>2, <3>3
  <2>7. I = live \cup {<<b, u>>}
    BY <2>6
  <2>8. QED BY <1>7, <2>1, <2>7
<1>20. Positions \subseteq Positions'
  BY <1>16, <1>17 DEF Positions, NoPosition
<1>21. iter' \in Positions' /\ seen' \in Seq(Nat \X Nat) /\ GivenOrAhead' /\ GivenInOrder'
  BY <1>1, <1>7, <1>20, LoopStays
<1>22. PoolTypeOK'
  BY <1>2, <1>7, <1>15, <1>17, <1>21 DEF PoolTypeOK
<1>23. lasting' \subseteq live'
  BY <1>2, <1>7
<1>24. QED BY <1>18, <1>19, <1>21, <1>22, <1>23 DEF PoolIInv

LEMMA RemoveKeeps == ASSUME NEW x \in live, PoolIInv, Remove(x) PROVE PoolIInv'
<1>1. blocks \in Seq(BlockType) /\ Counted /\ live = InUse /\ lasting \subseteq live /\ allocations \in Nat
  BY DEF PoolIInv, PoolTypeOK
<1>2. PICK L \in Nat : L = Len(blocks)
  BY <1>1
<1>3. PICK b \in 1 .. L, u \in Units : x = <<b, u>> /\ b = x[1] /\ u = x[2]
  <2>1. x \in Places
    BY <1>1 DEF InUse
  <2>2. PICK b \in BlockNumbers, u \in Units : x = <<b, u>>
    BY <2>1 DEF Places
  <2>3. QED BY <1>2, <2>2 DEF BlockNumbers
<1>4. BlockNumbers = 1 .. L /\ b \in BlockNumbers
  BY <1>2 DEF BlockNumbers
<1>5. PICK B \in SUBSET Units, n \in Nat : B = blocks[b].bitmap /\ n = blocks[b].allocatedUnits
  BY <1>1, <1>4, BitmapsAre
<1>6. /\ blocks' = [blocks EXCEPT ![b].bitmap = @ \ {u}, ![b].allocatedUnits = @ - 1]
      /\ live' = live \ {<<b, u>>} /\ lasting' = lasting \ {<<b, u>>}
      /\ UNCHANGED <<iter, seen, allocations>>
  BY <1>3, Zenon DEF Remove
<1>7. u \in B /\ IsFiniteSet(B) /\ n = Cardinality(B)
  <2>1. IsFiniteSet(B) /\ n = Cardinality(B)
    BY <1>1, <1>4, <1>5, BitmapsAre DEF Counted
  <2>2. x \in InUse
    BY <1>1
  <2>3. x[2] \in blocks[x[1]].bitmap
    BY <2>2 DEF InUse, IsValid
  <2>4. QED BY <1>3, <1>5, <2>1, <2>3
<1>8. PICK C \in SUBSET Units, m \in Nat : C = B \ {u} /\ m = n - 1 /\ m = Cardinality(C)
  <2>1. IsFiniteSet(B \ {u}) /\ Cardinality(B \ {u}) = n - 1
    BY <1>7, FS_RemoveElement
  <2>2. Cardinality(B \ {u}) \in Nat
    BY <2>1, FS_CardinalityType
  <2>3. B \ {u} \in SUBSET Units
    OBVIOUS
  <2>4. QED BY <2>1, <2>2, <2>3
<1>9. blocks \in [1 .. L -> BlockType]
  <2>1. blocks \in [1 .. Len(blocks) -> BlockType]
    BY <1>1
  <2>2. QED BY <1>2, <2>1, Zenon
<1>10. PICK N : N = [blocks[b] EXCEPT !.bitmap = C, !.allocatedUnits = m]
  OBVIOUS
<1>11. N \in BlockType /\ N.bitmap = C /\ N.allocatedUnits = m
  <2>1. PICK Q \in BlockType : Q = blocks[b]
    BY <1>9
  <2>2. IsBlock([Q EXCEPT !.bitmap = C, !.allocatedUnits = m], C, m)
    BY Updated
  <2>3. IsBlock(N, C, m)
    BY <1>10, <2>1, <2>2, Zenon
  <2>4. QED BY <2>3 DEF IsBlock
<1>12. blocks' = [blocks EXCEPT ![b] = N]
  <2>1. DOMAIN blocks = 1 .. L
    BY <1>9, Zenon
  <2>2. QED BY <1>5, <1>6, <1>8, <1>10, <2>1
<1>13. /\ blocks' \in Seq(BlockType) /\ Len(blocks') = L
       /\ \A c \in 1 .. L : blocks'[c] = IF c = b THEN N ELSE blocks[c]
  <2>1. blocks' \in [1 .. L -> BlockType]
    BY <1>9, <1>11, <1>12
  <2>2. \A c \in 1 .. L : blocks'[c] = IF c = b THEN N ELSE blocks[c]
    BY <1>9, <1>12
  <2>3. QED BY <2>1, <2>2
<1>14. BlockNumbers' = 1 .. L /\ BlockType' = BlockType /\ Units' = Units
  BY <1>13 DEF BlockNumbers, BlockType, Units
<1>15. Counted'
  <2>1. ASSUME NEW c \in 1 .. L
        PROVE  blocks'[c].allocatedUnits = Cardinality(blocks'[c].bitmap)
    <3>1. CASE c = b
      BY <1>8, <1>11, <1>13, <3>1
    <3>2. CASE c # b
      <4>1. blocks'[c] = blocks[c] /\ c \in BlockNumbers
        BY <1>4, <1>13, <3>2
      <4>2. QED BY <1>1, <4>1 DEF Counted
    <3>3. QED BY <3>1, <3>2
  <2>2. QED BY <1>14, <2>1 DEF Counted
<1>16. live' = InUse'
  <2>1. PICK I : I = InUse'
    OBVIOUS
  <2>2. \A p : p \in I <=> p \in (1 .. L) \X Units /\ p[2] \in blocks'[p[1]].bitmap
    BY <1>14, <2>1 DEF InUse, Places, IsValid
  <2>3. \A p : p \in live <=> p \in (1 .. L) \X Units /\ p[2] \in blocks[p[1]].bitmap
    BY <1>1, <1>4 DEF InUse, Places, IsValid
  <2>4. ASSUME NEW c \in 1 .. L, NEW v \in Units
        PROVE  <<c, v>> \in I <=> <<c, v>> \in live /\ ~(c = b /\ v = u)
    <3>1. <<c, v>> \in I <=> v \in blocks'[c].bitmap
      BY <2>2
    <3>2. <<c, v>> \in live <=> v \in blocks[c].bitmap
      BY <2>3
    <3>3. v \in blocks'[c].bitmap <=> v \in blocks[c].bitmap /\ ~(c = b /\ v = u)
      <4>1. CASE c = b
        <5>1. blocks'[c] = N
          BY <1>13, <4>1
        <5>2. QED BY <1>5, <1>8, <1>11, <4>1, <5>1
      <4>2. CASE c # b
        BY <1>13, <4>2
      <4>3. QED BY <4>1, <4>2
    <3>4. QED BY <3>1, <3>2, <3>3, Zenon
  <2>5. \A p : p \in I <=> p \in live /\ p # <<b, u>>
    <3>1. ASSUME NEW p, p \in (1 .. L) \X Units PROVE p \in I <=> p \in live /\ p # <<b, u>>
      <4>1. PICK c \in 1 .. L, v \in Units : p = <<c, v>>
        BY <3>1
      <4>2. p = <<b, u>> <=> c = b /\ v = u
        BY <4>1
      <4>3. QED BY <2>4, <4>1, <4>2, Zenon
    <3>2. QED BY <2>2, <2>3, <3>1
  <2>6. I = live \ {<<b, u>>}
    BY <2>5
  <2>7. QED BY <1>6, <2>1, <2>6
<1>17. Positions \subseteq Positions'
  BY <1>4, <1>14 DEF Positions, NoPosition
<1>18. iter' \in Positions' /\ seen' \in Seq(Nat \X Nat) /\ GivenOrAhead' /\ GivenInOrder'
  BY <1>6, <1>17, LoopStays
<1>19. PoolTypeOK'
  BY <1>1, <1>6, <1>13, <1>14, <1>18 DEF PoolTypeOK
<1>20. lasting' \subseteq live'
  BY <1>1, <1>6
<1>21. QED BY <1>15, <1>16, <1>18, <1>19, <1>20 DEF PoolIInv

\* What a loop that moves keeps, of the pool.
LEMMA PoolStays ==
  ASSUME PoolIInv, UNCHANGED <<blocks, live, allocations>>
  PROVE  /\ blocks' \in Seq(BlockType)' /\ allocations' \in Nat
         /\ Positions' = Positions /\ Counted' /\ live' = InUse'
BY DEF PoolIInv, PoolTypeOK, BlockType, Units, Positions, BlockNumbers, NoPosition, Counted,
       InUse, Places, IsValid

LEMMA StartKeeps == PoolIInv /\ StartIterating => PoolIInv'
<1>1. SUFFICES ASSUME PoolIInv, StartIterating PROVE PoolIInv'
  OBVIOUS
<1>2. blocks \in Seq(BlockType) /\ live = InUse
  BY <1>1 DEF PoolIInv, PoolTypeOK
<1>3. /\ iter' = Begin /\ lasting' = live /\ UNCHANGED <<blocks, live, allocations>>
      /\ seen' = IF iter' = NoPosition THEN <<>> ELSE <<iter'>>
  BY <1>1 DEF StartIterating
<1>4. PICK v : v = Begin
  OBVIOUS
<1>5. 1 \in 1 .. Last + 1
  BY <1>2, PlacesAre
<1>6. /\ v \in Positions
      /\ v = NoPosition => \A w \in InUse : Order(w) < 1
      /\ v # NoPosition =>
           v \in InUse /\ \A w \in InUse : Order(w) >= 1 => w = v \/ Order(v) < Order(w)
  BY <1>2, <1>4, <1>5, BeginIs, NextIs
<1>7. \A w \in InUse : Order(w) \in Nat /\ Order(w) >= 1 /\ w \in Nat \X Nat
  <2>1. \A w \in InUse : Order(w) \in 1 .. Last /\ w \in Nat \X Nat
    BY <1>2, PlacesAre, PlacesPair DEF InUse
  <2>2. Last \in Nat
    BY <1>2, PlacesAre
  <2>3. QED BY <2>1, <2>2
<1>8. blocks' \in Seq(BlockType)' /\ allocations' \in Nat /\ Positions' = Positions /\ Counted' /\ live' = InUse'
  BY <1>1, <1>3, PoolStays
<1>9. /\ seen' \in Seq(Nat \X Nat)
      /\ DOMAIN seen' = IF v = NoPosition THEN {} ELSE {1}
      /\ v # NoPosition => seen'[1] = v
  BY <1>3, <1>4, <1>6, <1>7
<1>10. \A e \in InUse : v # NoPosition /\ (e = v \/ Order(v) < Order(e))
  <2>1. ASSUME NEW e \in InUse PROVE v # NoPosition /\ (e = v \/ Order(v) < Order(e))
    <3>1. Order(e) \in Nat /\ Order(e) >= 1
      BY <1>7
    <3>2. v # NoPosition
      BY <1>6, <3>1
    <3>3. QED BY <1>6, <3>1, <3>2
  <2>2. QED BY <2>1
<1>11. GivenOrAhead'
  <2>1. ASSUME NEW e \in InUse
        PROVE  e \in {seen'[i] : i \in DOMAIN seen'} \/ (v # NoPosition /\ Order(v) < Order(e))
    <3>1. v # NoPosition /\ (e = v \/ Order(v) < Order(e))
      BY <1>10
    <3>2. CASE e = v
      <4>1. 1 \in DOMAIN seen' /\ seen'[1] = e
        BY <1>9, <3>1, <3>2
      <4>2. QED BY <4>1
    <3>3. CASE e # v
      BY <3>1, <3>3
    <3>4. QED BY <3>2, <3>3
  <2>2. \A e \in lasting' :
          e \in {seen'[i] : i \in DOMAIN seen'} \/ (iter' # NoPosition /\ Order(iter') < Order(e))
    BY <1>2, <1>3, <1>4, <2>1
  <2>3. QED BY <2>2 DEF GivenOrAhead, Given, Order, NoPosition
<1>12. GivenInOrder'
  <2>1. \A i, j \in DOMAIN seen' : ~(i < j)
    BY <1>9
  <2>2. ASSUME v # NoPosition, NEW i \in DOMAIN seen' PROVE Order(seen'[i]) <= Order(v)
    <3>1. seen'[i] = v /\ Order(v) \in Nat
      BY <1>6, <1>7, <1>9, <2>2
    <3>2. QED BY <3>1
  <2>3. \A i \in DOMAIN seen' : iter' # NoPosition => Order(seen'[i]) <= Order(iter')
    BY <1>3, <1>4, <2>2
  <2>4. QED BY <2>1, <2>3 DEF GivenInOrder, Order, NoPosition
<1>13. PoolTypeOK'
  BY <1>3, <1>4, <1>6, <1>8, <1>9 DEF PoolTypeOK
<1>14. lasting' \subseteq live'
  BY <1>3
<1>15. QED BY <1>8, <1>11, <1>12, <1>13, <1>14 DEF PoolIInv

LEMMA StepKeeps == PoolIInv /\ Step => PoolIInv'
<1>1. SUFFICES ASSUME PoolIInv, Step PROVE PoolIInv'
  OBVIOUS
<1>2. /\ blocks \in Seq(BlockType) /\ live = InUse /\ lasting \subseteq live
      /\ iter \in Positions /\ seen \in Seq(Nat \X Nat) /\ GivenOrAhead /\ GivenInOrder
  BY <1>1 DEF PoolIInv, PoolTypeOK
<1>3. /\ iter # NoPosition /\ iter' = ValidFrom(Advance(iter))
      /\ UNCHANGED <<blocks, lasting, live, allocations>>
      /\ seen' = IF iter' = NoPosition THEN seen ELSE Append(seen, iter')
  BY <1>1 DEF Step
<1>4. PICK v : v = iter'
  OBVIOUS
<1>5. PICK o \in Nat : o = Order(iter) /\ o + 1 \in 1 .. Last + 1 /\ Advance(iter) = At(o + 1)
  <2>1. iter \in Places
    BY <1>2, <1>3, RanksAre
  <2>2. Order(iter) \in 1 .. Last /\ Advance(iter) = At(Order(iter) + 1) /\ Last \in Nat
    BY <1>2, <2>1, PlacesAre
  <2>3. QED BY <2>2
<1>6. /\ v \in Positions
      /\ v = NoPosition => \A w \in InUse : Order(w) < o + 1
      /\ v # NoPosition =>
           /\ v \in InUse /\ Order(v) >= o + 1
           /\ \A w \in InUse : Order(w) >= o + 1 => w = v \/ Order(v) < Order(w)
  BY <1>2, <1>3, <1>4, <1>5, NextIs
<1>7. \A w \in InUse : Order(w) \in Nat /\ w \in Nat \X Nat
  <2>1. \A w \in InUse : Order(w) \in 1 .. Last /\ w \in Nat \X Nat
    BY <1>2, PlacesAre, PlacesPair DEF InUse
  <2>2. QED BY <2>1
<1>8. blocks' \in Seq(BlockType)' /\ allocations' \in Nat /\ Positions' = Positions /\ Counted' /\ live' = InUse'
  BY <1>1, <1>3, PoolStays
<1>9. PICK n \in Nat : n = Len(seen)
  BY <1>2
<1>10. /\ seen' \in Seq(Nat \X Nat)
       /\ v = NoPosition => seen' = seen
       /\ v # NoPosition => /\ DOMAIN seen' = 1 .. n + 1 /\ seen'[n + 1] = v
                            /\ \A i \in 1 .. n : seen'[i] = seen[i]
       /\ DOMAIN seen = 1 .. n
  <2>1. CASE v = NoPosition
    BY <1>2, <1>3, <1>4, <1>9, <2>1
  <2>2. CASE v # NoPosition
    <3>1. seen' = Append(seen, v) /\ v \in Nat \X Nat
      BY <1>3, <1>4, <1>6, <1>7, <2>2
    <3>2. QED BY <1>2, <1>9, <2>2, <3>1
  <2>3. QED BY <2>1, <2>2
<1>11. \A i \in 1 .. n : Order(seen[i]) \in Int /\ Order(seen[i]) <= o
  <2>1. \A i \in 1 .. n : Order(seen[i]) \in Int
    BY <1>2, <1>9, OrderIs
  <2>2. QED BY <1>2, <1>3, <1>5, <1>10, <2>1 DEF GivenInOrder
<1>12. GivenOrAhead'
  <2>1. ASSUME NEW e \in lasting
        PROVE  e \in {seen'[i] : i \in DOMAIN seen'} \/ (v # NoPosition /\ Order(v) < Order(e))
    <3>1. e \in InUse /\ Order(e) \in Nat
      BY <1>2, <1>7
    <3>2. CASE e \in Given
      <4>1. PICK i \in 1 .. n : e = seen[i]
        BY <1>10, <3>2 DEF Given
      <4>2. i \in DOMAIN seen' /\ seen'[i] = e
        BY <1>10, <4>1
      <4>3. QED BY <4>2
    <3>3. CASE e \notin Given
      <4>1. o < Order(e)
        BY <1>2, <1>5, <3>3 DEF GivenOrAhead
      <4>2. Order(e) >= o + 1 /\ ~(Order(e) < o + 1)
        BY <3>1, <4>1
      <4>3. v # NoPosition
        BY <1>6, <3>1, <4>2
      <4>4. e = v \/ Order(v) < Order(e)
        BY <1>6, <3>1, <4>2, <4>3
      <4>5. CASE e = v
        <5>1. n + 1 \in DOMAIN seen' /\ seen'[n + 1] = e
          BY <1>10, <4>3, <4>5
        <5>2. QED BY <5>1
      <4>6. CASE e # v
        BY <4>3, <4>4, <4>6
      <4>7. QED BY <4>5, <4>6
    <3>4. QED BY <3>2, <3>3
  <2>2. \A e \in lasting' :
          e \in {seen'[i] : i \in DOMAIN seen'} \/ (iter' # NoPosition /\ Order(iter') < Order(e))
    BY <1>3, <1>4, <2>1
  <2>3. QED BY <2>2 DEF GivenOrAhead, Given, Order, NoPosition
<1>13. GivenInOrder'
  <2>1. \A i, j \in 1 .. n : i < j => Order(seen[i]) < Order(seen[j])
    BY <1>2, <1>10 DEF GivenInOrder
  <2>2. ASSUME NEW i \in DOMAIN seen', NEW j \in DOMAIN seen', i < j
        PROVE  Order(seen'[i]) < Order(seen'[j])
    <3>1. CASE v = NoPosition
      BY <1>10, <2>1, <2>2, <3>1
    <3>2. CASE v # NoPosition
      <4>1. i \in 1 .. n /\ j \in 1 .. n + 1 /\ seen'[i] = seen[i]
        BY <1>10, <2>2, <3>2
      <4>2. CASE j = n + 1
        <5>1. seen'[j] = v /\ Order(v) >= o + 1 /\ Order(v) \in Nat
          BY <1>6, <1>7, <1>10, <3>2, <4>2
        <5>2. Order(seen[i]) \in Int /\ Order(seen[i]) <= o
          BY <1>11, <4>1
        <5>3. QED BY <4>1, <5>1, <5>2
      <4>3. CASE j # n + 1
        <5>1. j \in 1 .. n /\ seen'[j] = seen[j]
          BY <1>10, <3>2, <4>1, <4>3
        <5>2. QED BY <2>1, <2>2, <4>1, <5>1
      <4>4. QED BY <4>2, <4>3
    <3>3. QED BY <3>1, <3>2
  <2>3. ASSUME v # NoPosition, NEW i \in DOMAIN seen' PROVE Order(seen'[i]) <= Order(v)
    <3>1. Order(v) \in Nat /\ Order(v) >= o + 1 /\ i \in 1 .. n + 1
      BY <1>6, <1>7, <1>10, <2>3
    <3>2. CASE i = n + 1
      <4>1. seen'[i] = v
        BY <1>10, <2>3, <3>2
      <4>2. QED BY <3>1, <4>1
    <3>3. CASE i # n + 1
      <4>1. i \in 1 .. n /\ seen'[i] = seen[i]
        BY <1>10, <2>3, <3>1, <3>3
      <4>2. Order(seen[i]) \in Int /\ Order(seen[i]) <= o
        BY <1>11, <4>1
      <4>3. QED BY <3>1, <4>1, <4>2
    <3>4. QED BY <3>2, <3>3
  <2>4. \A i \in DOMAIN seen' : iter' # NoPosition => Order(seen'[i]) <= Order(iter')
    BY <1>4, <2>3
  <2>5. QED BY <2>2, <2>4 DEF GivenInOrder, Order, NoPosition
<1>14. PoolTypeOK'
  BY <1>4, <1>6, <1>8, <1>10 DEF PoolTypeOK
<1>15. lasting' \subseteq live'
  BY <1>2, <1>3
<1>16. QED BY <1>8, <1>12, <1>13, <1>14, <1>15 DEF PoolIInv

LEMMA ClearKeeps == ASSUME NEW freeMemory \in BOOLEAN, PoolIInv, ClearPool(freeMemory) PROVE PoolIInv'
<1>1. blocks \in Seq(BlockType)
  BY DEF PoolIInv, PoolTypeOK
<1>2. /\ iter = NoPosition /\ iter' = NoPosition /\ live' = {} /\ lasting' = {} /\ seen' = <<>>
      /\ allocations' = 0
      /\ blocks' = IF freeMemory THEN <<>> ELSE [b \in BlockNumbers |-> NewBlock]
  BY DEF ClearPool
<1>3. PICK K \in Nat :
        /\ blocks' \in Seq(BlockType) /\ K = Len(blocks')
        /\ \A b \in 1 .. K : blocks'[b] = NewBlock
  <2>1. CASE freeMemory
    <3>1. blocks' = <<>>
      BY <1>2, <2>1
    <3>2. blocks' \in Seq(BlockType) /\ Len(blocks') = 0
      BY <3>1
    <3>3. QED BY <3>2
  <2>2. CASE ~freeMemory
    <3>1. PICK L \in Nat : L = Len(blocks)
      BY <1>1
    <3>2. blocks' = [b \in 1 .. L |-> NewBlock]
      BY <1>2, <2>2, <3>1 DEF BlockNumbers
    <3>3. NewBlock \in BlockType
      BY DEF NewBlock, BlockType
    <3>4. QED BY <3>2, <3>3
  <2>3. QED BY <2>1, <2>2
<1>4. BlockNumbers' = 1 .. K /\ BlockType' = BlockType /\ Units' = Units
  BY <1>3 DEF BlockNumbers, BlockType, Units
<1>5. NewBlock.bitmap = {} /\ NewBlock.allocatedUnits = 0
  BY DEF NewBlock
<1>6. Counted'
  BY <1>3, <1>4, <1>5, FS_EmptySet DEF Counted
<1>7. live' = InUse'
  BY <1>2, <1>3, <1>4, <1>5 DEF InUse, Places, IsValid
<1>8. PoolTypeOK'
  <2>1. <<>> \in Seq(Nat \X Nat) /\ 0 \in Nat
    OBVIOUS
  <2>2. iter' \in Positions'
    BY <1>2 DEF Positions, NoPosition
  <2>3. QED BY <1>2, <1>3, <1>4, <2>1, <2>2 DEF PoolTypeOK
<1>9. GivenOrAhead' /\ GivenInOrder'
  BY <1>2 DEF GivenOrAhead, GivenInOrder, NoPosition
<1>10. lasting' \subseteq live'
  BY <1>2
<1>11. QED BY <1>6, <1>7, <1>8, <1>9, <1>10 DEF PoolIInv

LEMMA PoolInvariant == PoolSpec => []PoolIInv
<1>1. PoolInit => PoolIInv
  <2>1. SUFFICES ASSUME PoolInit PROVE PoolIInv
    OBVIOUS
  <2>2. blocks = <<>> /\ iter = NoPosition /\ seen = <<>> /\ lasting = {} /\ live = {} /\ allocations = 0
    BY <2>1 DEF PoolInit
  <2>3. <<>> \in Seq(BlockType) /\ <<>> \in Seq(Nat \X Nat) /\ BlockNumbers = {}
    BY <2>2 DEF BlockNumbers
  <2>4. InUse = {} /\ Counted
    BY <2>3 DEF InUse, Places, Counted
  <2>5. PoolTypeOK
    BY <2>2, <2>3 DEF PoolTypeOK, Positions
  <2>6. GivenOrAhead /\ GivenInOrder
    BY <2>2 DEF GivenOrAhead, GivenInOrder
  <2>7. QED BY <2>2, <2>4, <2>5, <2>6 DEF PoolIInv
<1>2. PoolIInv /\ [PoolNext]_poolVars => PoolIInv'
  <2>1. SUFFICES ASSUME PoolIInv, [PoolNext]_poolVars PROVE PoolIInv'
    OBVIOUS
  <2>2. CASE Alloc
    BY <2>1, <2>2, AllocKeeps
  <2>3. CASE \E x \in live : Holes < MaxHoles /\ Remove(x)
    BY <2>1, <2>3, RemoveKeeps
  <2>4. CASE StartIterating
    BY <2>1, <2>4, StartKeeps
  <2>5. CASE Step
    BY <2>1, <2>5, StepKeeps
  <2>6. CASE \E freeMemory \in BOOLEAN : ClearPool(freeMemory)
    BY <2>1, <2>6, ClearKeeps
  <2>7. CASE UNCHANGED poolVars
    <3>1. UNCHANGED <<blocks, iter, seen, lasting, live, allocations>>
      BY <2>7 DEF poolVars
    <3>2. Positions' = Positions /\ Counted' /\ live' = InUse' /\ blocks' \in Seq(BlockType)' /\ allocations' \in Nat
      BY <2>1, <3>1, PoolStays
    <3>3. iter' \in Positions' /\ seen' \in Seq(Nat \X Nat) /\ GivenOrAhead' /\ GivenInOrder'
      BY <2>1, <3>1, <3>2, LoopStays
    <3>4. PoolTypeOK'
      BY <3>2, <3>3 DEF PoolTypeOK
    <3>5. lasting' \subseteq live'
      BY <2>1, <3>1 DEF PoolIInv
    <3>6. QED BY <3>2, <3>3, <3>4, <3>5 DEF PoolIInv
  <2>8. QED BY <2>1, <2>2, <2>3, <2>4, <2>5, <2>6, <2>7 DEF PoolNext
<1>3. QED BY <1>1, <1>2, PTL DEF PoolSpec

\* However elements are allocated and removed, also while a loop walks the pool,
\* it counts and iterates exactly the elements handed out and not removed, and a
\* loop gives every element that outlives it once (memory.hpp:1578-1712).
THEOREM EveryElementGiven == PoolSpec => []IteratesWhatLives
<1>1. PoolIInv => IteratesWhatLives
  <2>1. SUFFICES ASSUME PoolIInv PROVE IteratesWhatLives
    OBVIOUS
  <2>2. /\ blocks \in Seq(BlockType) /\ Counted /\ live = InUse /\ seen \in Seq(Nat \X Nat)
        /\ GivenOrAhead /\ GivenInOrder
    BY <2>1 DEF PoolIInv, PoolTypeOK
  <2>3. IsSetOf(Elements, live)
    BY <2>2, ElementsAre
  <2>4. Size = Cardinality(live)
    BY <2>2, SizeIs
  <2>5. iter = NoPosition => lasting \subseteq {seen[i] : i \in DOMAIN seen}
    BY <2>2 DEF GivenOrAhead, Given
  <2>6. ASSUME NEW i \in DOMAIN seen, NEW j \in DOMAIN seen, i < j PROVE seen[i] # seen[j]
    <3>1. Order(seen[i]) < Order(seen[j]) /\ Order(seen[i]) \in Int
      BY <2>2, <2>6, OrderIs DEF GivenInOrder
    <3>2. SUFFICES ASSUME seen[i] = seen[j] PROVE FALSE
      OBVIOUS
    <3>3. Order(seen[i]) < Order(seen[i])
      BY <3>1, <3>2
    <3>4. QED BY <3>1, <3>3
  <2>7. QED BY <2>3, <2>4, <2>5, <2>6 DEF IteratesWhatLives
<1>2. QED BY <1>1, PoolInvariant, PTL

-----------------------------------------------------------------------------
(* Following links that lead up.                                            *)

\* h follows the links of nx from each of 1 .. N to the first where it stops, or to 0.
Follows(N, nx, stop, h) ==
  h[0] = 0 /\ \A i \in 1 .. N : h[i] = IF stop[i] THEN i ELSE h[nx[i]]

LEMMA LinksEnd ==
  ASSUME NEW N \in Nat, NEW nx \in [1 .. N -> 0 .. N], NEW stop \in [1 .. N -> BOOLEAN],
         \A i \in 1 .. N : stop[i] \/ nx[i] = 0 \/ nx[i] > i
  PROVE  \E h \in [0 .. N -> 0 .. N] : Follows(N, nx, stop, h)
<1> DEFINE From(m) == \E h \in [0 .. N -> 0 .. N] :
                        h[0] = 0 /\ \A i \in m .. N : h[i] = IF stop[i] THEN i ELSE h[nx[i]]
<1>1. From(N + 1)
  <2>1. PICK h : h = [i \in 0 .. N |-> 0]
    OBVIOUS
  <2>2. h \in [0 .. N -> 0 .. N] /\ h[0] = 0 /\ (N + 1 .. N) = {}
    BY <2>1
  <2>3. QED BY <2>2
<1>2. ASSUME NEW m \in 1 .. N, From(m + 1) PROVE From(m)
  <2>1. PICK h \in [0 .. N -> 0 .. N] :
          h[0] = 0 /\ \A i \in m + 1 .. N : h[i] = IF stop[i] THEN i ELSE h[nx[i]]
    BY <1>2
  <2>2. PICK x \in 0 .. N : x = IF stop[m] THEN m ELSE h[nx[m]]
    OBVIOUS
  <2>3. PICK g : g = [i \in 0 .. N |-> IF i = m THEN x ELSE h[i]]
    OBVIOUS
  <2>4. g \in [0 .. N -> 0 .. N] /\ g[m] = x /\ \A i \in 0 .. N : i # m => g[i] = h[i]
    BY <2>1, <2>3
  <2>5. ASSUME NEW i \in m .. N PROVE g[i] = IF stop[i] THEN i ELSE g[nx[i]]
    <3>1. i \in 1 .. N
      OBVIOUS
    <3>2. stop[i] \/ g[nx[i]] = h[nx[i]]
      <4>1. SUFFICES ASSUME ~stop[i] PROVE g[nx[i]] = h[nx[i]]
        OBVIOUS
      <4>2. nx[i] = 0 \/ nx[i] > i
        BY <3>1, <4>1, Zenon
      <4>3. nx[i] \in 0 .. N
        BY <3>1
      <4>4. nx[i] # m
        <5>1. PICK y \in 0 .. N : y = nx[i]
          BY <4>3
        <5>2. y = 0 \/ y > i
          BY <4>2, <5>1, Zenon
        <5>3. y # m
          BY <5>2
        <5>4. QED BY <5>1, <5>3
      <4>5. QED BY <2>4, <4>3, <4>4
    <3>3. CASE i = m
      BY <2>2, <2>4, <3>2, <3>3
    <3>4. CASE i # m
      <4>1. i \in m + 1 .. N /\ g[i] = h[i]
        BY <2>4, <3>1, <3>4
      <4>2. h[i] = IF stop[i] THEN i ELSE h[nx[i]]
        BY <2>1, <4>1
      <4>3. QED BY <3>2, <4>1, <4>2
    <3>5. QED BY <3>3, <3>4
  <2>6. g[0] = 0
    BY <2>1, <2>4
  <2>7. QED BY <2>4, <2>5, <2>6
<1>3. From(1)
  <2> HIDE DEF From
  <2>1. PICK G : G = {m \in 1 .. N + 1 : From(m)}
    OBVIOUS
  <2>2. N + 1 \in G /\ \A k \in 1 .. N : k + 1 \in G => k \in G
    BY <1>1, <1>2, <2>1
  <2>3. \A k \in 1 .. N + 1 : k \in G
    BY <2>2, FromTheLast
  <2>4. QED BY <2>1, <2>3
<1>4. QED BY <1>3 DEF Follows

\* The size of the arrays.
LEMMA AllocatedIs == nodesAllocated \in Nat \ {0}
<1> DEFINE Loop(up) == [m \in 1 .. 2 * MaxElements |->
                          IF m >= MaxElements THEN m ELSE up[2 * m]]
<1>1. PICK n \in Nat \ {0}, N \in Nat \ {0} : n = MaxElements /\ N = 2 * MaxElements
  BY HashmapAssumption
<1>2. PICK nx : nx = [m \in 1 .. N |-> IF m >= n THEN 0 ELSE 2 * m]
  OBVIOUS
<1>3. PICK stop : stop = [m \in 1 .. N |-> m >= n]
  OBVIOUS
<1>4. nx \in [1 .. N -> 0 .. N] /\ stop \in [1 .. N -> BOOLEAN]
  BY <1>1, <1>2, <1>3
<1>5. ASSUME NEW m \in 1 .. N PROVE stop[m] \/ nx[m] > m
  <2>1. CASE m >= n
    BY <1>3, <2>1
  <2>2. CASE ~(m >= n)
    <3>1. nx[m] = 2 * m
      BY <1>2, <2>2
    <3>2. nx[m] > m
      BY <3>1
    <3>3. QED BY <3>2
  <2>3. QED BY <2>1, <2>2
<1>6. PICK f \in [0 .. N -> 0 .. N] : Follows(N, nx, stop, f)
  BY <1>4, <1>5, LinksEnd
<1>7. \E h : h = Loop(h)
  <2>1. PICK h : h = [m \in 1 .. N |-> f[m]]
    OBVIOUS
  <2>2. ASSUME NEW m \in 1 .. N PROVE f[m] = IF m >= n THEN m ELSE h[2 * m]
    <3>1. f[m] = IF stop[m] THEN m ELSE f[nx[m]]
      BY <1>6 DEF Follows
    <3>2. CASE m >= n
      BY <1>3, <3>1, <3>2
    <3>3. CASE ~(m >= n)
      <4>1. 2 * m \in 1 .. N /\ nx[m] = 2 * m /\ ~stop[m]
        <5>1. 2 * m \in 1 .. N
          BY <1>1, <3>3
        <5>2. nx[m] = 2 * m
          BY <1>2, <3>3
        <5>3. ~stop[m]
          BY <1>3, <3>3
        <5>4. QED BY <5>1, <5>2, <5>3, Zenon
      <4>2. h[2 * m] = f[2 * m]
        BY <2>1, <4>1
      <4>3. QED BY <3>1, <3>3, <4>1, <4>2
    <3>4. QED BY <3>2, <3>3
  <2>3. h = Loop(h)
    BY <1>1, <2>1, <2>2, Zenon
  <2>4. QED BY <2>3
<1>8. PICK g : g = CHOOSE up : up = Loop(up)
  OBVIOUS
<1>9. g = Loop(g)
  BY <1>7, <1>8, Zenon
<1>10. AlignNextPower2(MaxElements) = g[1]
  BY <1>8, Zenon DEF AlignNextPower2
<1>11. \A m \in 1 .. N : g[m] = IF m >= n THEN m ELSE g[2 * m]
  BY <1>1, <1>9, Zenon
<1> HIDE DEF Loop
<1>12. PICK G : G = {k \in 1 .. N + 1 : \A m \in k .. N : g[m] \in Nat \ {0}}
  OBVIOUS
<1>13. N + 1 \in G
  BY <1>12
<1>14. ASSUME NEW k \in 1 .. N, k + 1 \in G PROVE k \in G
  <2>1. \A m \in k + 1 .. N : g[m] \in Nat \ {0}
    BY <1>12, <1>14
  <2>2. g[k] \in Nat \ {0}
    <3>1. CASE k >= n
      BY <1>11, <3>1
    <3>2. CASE ~(k >= n)
      <4>1. 2 * k \in k + 1 .. N
        BY <1>1, <3>2
      <4>2. QED BY <1>11, <2>1, <3>2, <4>1
    <3>3. QED BY <3>1, <3>2
  <2>3. \A m \in k .. N : m = k \/ m \in k + 1 .. N
    OBVIOUS
  <2>4. QED BY <1>12, <2>1, <2>2, <2>3
<1>15. \A k \in 1 .. N + 1 : k \in G
  BY <1>13, <1>14, FromTheLast
<1>16. PICK x \in Nat \ {0} : x = g[1]
  <2>1. 1 \in 1 .. N + 1 /\ 1 \in 1 .. N
    OBVIOUS
  <2>2. 1 \in G
    BY <1>15, <2>1
  <2>3. QED BY <1>12, <2>1, <2>2
<1>17. nodesAllocated = x * 2
  BY <1>10, <1>16 DEF nodesAllocated
<1>18. QED BY <1>17

-----------------------------------------------------------------------------
(* The chains.                                                              *)

BucketOf(i) == Bucket(data[i][1])

\* j is the first pair behind the i-th in bucket b, 0 when there is none.
FirstBehind(i, b, j) ==
  /\ j # 0 => j \in 1 .. nodesUsed /\ j > i /\ BucketOf(j) = b
  /\ \A m \in 1 .. nodesUsed : m > i /\ BucketOf(m) = b => j # 0 /\ j <= m

\* The links are those of the chains of the pairs in order of insertion.
Chained ==
  /\ \A b \in 0 .. nodesAllocated - 1 : FirstBehind(0, b, buckets[b])
  /\ \A i \in 1 .. nodesUsed : FirstBehind(i, BucketOf(i), next[i])
  /\ \A i \in Slots : i > nodesUsed => next[i] = 0

TableTypeOK ==
  /\ hash \in [Keys -> Nat]
  /\ nodesUsed \in 0 .. nodesAllocated
  /\ buckets \in [0 .. nodesAllocated - 1 -> 0 .. nodesAllocated]
  /\ next \in [Slots -> 0 .. nodesAllocated]
  /\ DOMAIN data = Slots /\ data = [i \in Slots |-> data[i]]
  /\ \A i \in 1 .. nodesUsed : data[i] \in Keys \X (Values \cup {Zero})

OncePerKey == \A i, j \in 1 .. nodesUsed : data[i][1] = data[j][1] => i = j

TableIInv == TableTypeOK /\ Chained /\ OncePerKey

LEMMA BucketIs ==
  ASSUME hash \in [Keys -> Nat], NEW k \in Keys PROVE Bucket(k) \in 0 .. nodesAllocated - 1
<1>1. PICK N \in Nat \ {0}, x \in Nat : N = nodesAllocated /\ x = hash[k]
  BY AllocatedIs
<1>2. x % N \in 0 .. N - 1
  OBVIOUS
<1>3. QED BY <1>1, <1>2 DEF Bucket

\* Where a key is.
LEMMA LookupIs ==
  ASSUME TableIInv, NEW k \in Keys, NEW l, l = Lookup(k)
  PROVE  /\ l = 0 => \A i \in 1 .. nodesUsed : data[i][1] # k
         /\ l # 0 => l \in 1 .. nodesUsed /\ data[l][1] = k
<1> DEFINE Loop(chain) == [i \in 0 .. nodesAllocated |->
                             IF i = 0 \/ data[i][1] = k THEN i ELSE chain[next[i]]]
<1>1. PICK N \in Nat \ {0} : N = nodesAllocated
  BY AllocatedIs
<1>2. /\ nodesUsed \in 0 .. N /\ next \in [1 .. N -> 0 .. N] /\ Slots = 1 .. N
      /\ buckets \in [0 .. N - 1 -> 0 .. N] /\ hash \in [Keys -> Nat]
      /\ \A i \in 1 .. nodesUsed : data[i] \in Keys \X (Values \cup {Zero})
  BY <1>1 DEF TableIInv, TableTypeOK, Slots
<1>3. PICK b \in 0 .. N - 1 : b = Bucket(k)
  BY <1>1, <1>2, BucketIs
<1>4. PICK stop : stop = [i \in 1 .. N |-> data[i][1] = k]
  OBVIOUS
<1>5. stop \in [1 .. N -> BOOLEAN]
  BY <1>4
<1>6. \A i \in 1 .. N : next[i] = 0 \/ next[i] > i
  BY <1>2 DEF TableIInv, Chained, FirstBehind
<1>7. PICK f \in [0 .. N -> 0 .. N] : Follows(N, next, stop, f)
  BY <1>2, <1>5, <1>6, LinksEnd
<1>8. f = Loop(f)
  <2>1. f = [i \in 0 .. N |-> f[i]]
    OBVIOUS
  <2>2. ASSUME NEW i \in 0 .. N PROVE f[i] = IF i = 0 \/ data[i][1] = k THEN i ELSE f[next[i]]
    <3>1. CASE i = 0
      BY <1>7, <3>1 DEF Follows
    <3>2. CASE i # 0
      <4>1. i \in 1 .. N
        BY <3>2
      <4>2. f[i] = IF stop[i] THEN i ELSE f[next[i]]
        BY <1>7, <4>1 DEF Follows
      <4>3. stop[i] = (data[i][1] = k)
        BY <1>4, <4>1
      <4>4. QED BY <3>2, <4>2, <4>3, Zenon
    <3>3. QED BY <3>1, <3>2
  <2>3. QED BY <1>1, <2>1, <2>2, Zenon
<1>9. PICK g : g = CHOOSE chain : chain = Loop(chain)
  OBVIOUS
<1>10. g = Loop(g)
  BY <1>8, <1>9, Zenon
<1>11. l = g[buckets[b]]
  BY <1>3, <1>9, Zenon DEF Lookup
<1>12. \A i \in 0 .. N : g[i] = IF i = 0 \/ data[i][1] = k THEN i ELSE g[next[i]]
  BY <1>1, <1>10, Zenon
<1> HIDE DEF Loop
<1> DEFINE Right(i) == /\ g[i] = 0 => \A m \in 1 .. nodesUsed : m >= i => data[m][1] # k
                       /\ g[i] # 0 => g[i] \in 1 .. nodesUsed /\ data[g[i]][1] = k
<1>13. g[0] = 0
  BY <1>12
<1>14. ASSUME NEW i \in 0 .. nodesUsed, NEW j, j \in 0 .. N, FirstBehind(i, b, j), j # 0 => Right(j)
       PROVE  /\ g[j] = 0 => \A m \in 1 .. nodesUsed : m > i => data[m][1] # k
              /\ g[j] # 0 => g[j] \in 1 .. nodesUsed /\ data[g[j]][1] = k
  <2>1. \A m \in 1 .. nodesUsed : data[m][1] = k => BucketOf(m) = b
    BY <1>3 DEF BucketOf
  <2>2. CASE j = 0
    BY <1>13, <1>14, <2>1, <2>2 DEF FirstBehind
  <2>3. CASE j # 0
    BY <1>14, <2>1, <2>3 DEF FirstBehind
  <2>4. QED BY <2>2, <2>3
<1>15. PICK G : G = {p \in 1 .. N + 1 : \A i \in 1 .. nodesUsed :
                       i >= p /\ BucketOf(i) = b => Right(i)}
  OBVIOUS
<1>16. N + 1 \in G
  <2>1. \A i \in 1 .. nodesUsed : ~(i >= N + 1)
    BY <1>2
  <2>2. QED BY <1>15, <2>1
<1>17. ASSUME NEW p \in 1 .. N, p + 1 \in G PROVE p \in G
  <2>1. \A i \in 1 .. nodesUsed : i >= p + 1 /\ BucketOf(i) = b => Right(i)
    BY <1>15, <1>17
  <2>2. ASSUME p \in 1 .. nodesUsed, BucketOf(p) = b PROVE Right(p)
    <3>1. CASE data[p][1] = k
      <4>1. p \in 0 .. N
        BY <1>2
      <4>2. g[p] = p
        BY <1>12, <3>1, <4>1, Zenon
      <4>3. QED BY <2>2, <3>1, <4>2
    <3>2. CASE data[p][1] # k
      <4>1. g[p] = g[next[p]]
        <5>1. p \in 0 .. N /\ p # 0
          BY <1>2
        <5>2. QED BY <1>12, <3>2, <5>1, Zenon
      <4>2. FirstBehind(p, b, next[p]) /\ next[p] \in 0 .. N
        BY <1>2, <2>2 DEF TableIInv, Chained
      <4>3. next[p] # 0 => Right(next[p])
        <5>1. SUFFICES ASSUME next[p] # 0 PROVE Right(next[p])
          OBVIOUS
        <5>2. next[p] \in 1 .. nodesUsed /\ next[p] > p /\ BucketOf(next[p]) = b
          BY <4>2, <5>1, Zenon DEF FirstBehind
        <5>3. next[p] >= p + 1
          <6>1. PICK y \in 0 .. N : y = next[p]
            BY <4>2
          <6>2. y > p
            BY <5>2, <6>1, Zenon
          <6>3. y >= p + 1
            BY <6>2
          <6>4. QED BY <6>1, <6>3, Zenon
        <5>4. QED BY <2>1, <5>2, <5>3
      <4>4. p \in 0 .. nodesUsed
        BY <2>2
      <4>5. /\ g[next[p]] = 0 => \A m \in 1 .. nodesUsed : m > p => data[m][1] # k
            /\ g[next[p]] # 0 => g[next[p]] \in 1 .. nodesUsed /\ data[g[next[p]]][1] = k
        BY <1>14, <4>2, <4>3, <4>4
      <4>6. \A m \in 1 .. nodesUsed : m >= p => m = p \/ m > p
        OBVIOUS
      <4>7. QED BY <3>2, <4>1, <4>5, <4>6
    <3>3. QED BY <3>1, <3>2
  <2> HIDE DEF Right
  <2>3. \A i \in 1 .. nodesUsed : i >= p => i = p \/ i >= p + 1
    OBVIOUS
  <2>4. QED BY <1>15, <2>1, <2>2, <2>3
<1>18. \A p \in 1 .. N + 1 : p \in G
  BY <1>16, <1>17, FromTheLast
<1>19. \A i \in 1 .. nodesUsed : BucketOf(i) = b => Right(i)
  <2> HIDE DEF Right
  <2>1. 1 \in G
    BY <1>18
  <2>2. QED BY <1>15, <2>1
<1>20. FirstBehind(0, b, buckets[b]) /\ buckets[b] \in 0 .. N
  BY <1>1, <1>2 DEF TableIInv, Chained
<1>21. buckets[b] # 0 => Right(buckets[b])
  <2> HIDE DEF Right
  <2>1. SUFFICES ASSUME buckets[b] # 0 PROVE Right(buckets[b])
    OBVIOUS
  <2>2. buckets[b] \in 1 .. nodesUsed /\ BucketOf(buckets[b]) = b
    BY <1>20, <2>1 DEF FirstBehind
  <2>3. QED BY <1>19, <2>2
<1>22. 0 \in 0 .. nodesUsed
  BY <1>2
<1>23. /\ g[buckets[b]] = 0 => \A m \in 1 .. nodesUsed : m > 0 => data[m][1] # k
       /\ g[buckets[b]] # 0 => g[buckets[b]] \in 1 .. nodesUsed /\ data[g[buckets[b]]][1] = k
  BY <1>14, <1>20, <1>21, <1>22
<1>24. \A m \in 1 .. nodesUsed : m > 0
  OBVIOUS
<1>25. QED BY <1>11, <1>23, <1>24

\* The end of a chain.
LEMMA ChainEndIs ==
  ASSUME TableIInv, NEW b \in 0 .. nodesAllocated - 1, NEW l, l = ChainEnd(b)
  PROVE  /\ l = 0 => buckets[b] = 0
         /\ l # 0 => /\ l \in 1 .. nodesUsed /\ BucketOf(l) = b /\ buckets[b] # 0 /\ next[l] = 0
<1> DEFINE Loop(last) == [i \in Slots |-> IF next[i] = 0 THEN i ELSE last[next[i]]]
<1>1. PICK N \in Nat \ {0} : N = nodesAllocated
  BY AllocatedIs
<1>2. /\ nodesUsed \in 0 .. N /\ next \in [1 .. N -> 0 .. N] /\ Slots = 1 .. N
      /\ buckets \in [0 .. N - 1 -> 0 .. N]
  BY <1>1 DEF TableIInv, TableTypeOK, Slots
<1>3. PICK stop : stop = [i \in 1 .. N |-> next[i] = 0]
  OBVIOUS
<1>4. stop \in [1 .. N -> BOOLEAN]
  BY <1>3
<1>5. \A i \in 1 .. N : next[i] = 0 \/ next[i] > i
  BY <1>2 DEF TableIInv, Chained, FirstBehind
<1>6. PICK f \in [0 .. N -> 0 .. N] : Follows(N, next, stop, f)
  BY <1>2, <1>4, <1>5, LinksEnd
<1>7. \E h : h = Loop(h)
  <2>1. PICK h : h = [i \in 1 .. N |-> f[i]]
    OBVIOUS
  <2>2. ASSUME NEW i \in 1 .. N PROVE f[i] = IF next[i] = 0 THEN i ELSE h[next[i]]
    <3>1. f[i] = IF stop[i] THEN i ELSE f[next[i]]
      BY <1>6 DEF Follows
    <3>2. CASE next[i] = 0
      BY <1>3, <3>1, <3>2
    <3>3. CASE next[i] # 0
      <4>1. next[i] \in 1 .. N /\ ~stop[i]
        <5>1. PICK y \in 0 .. N : y = next[i]
          BY <1>2
        <5>2. y # 0
          BY <3>3, <5>1, Zenon
        <5>5. y \in 1 .. N
          BY <5>2
        <5>3. ~stop[i]
          BY <1>3, <3>3, Zenon
        <5>4. QED BY <5>1, <5>5, <5>3, Zenon
      <4>2. h[next[i]] = f[next[i]]
        BY <2>1, <4>1
      <4>3. QED BY <3>1, <3>3, <4>1, <4>2
    <3>4. QED BY <3>2, <3>3
  <2>3. h = Loop(h)
    BY <1>2, <2>1, <2>2, Zenon
  <2>4. QED BY <2>3
<1>8. PICK g : g = CHOOSE last : last = Loop(last)
  OBVIOUS
<1>9. g = Loop(g)
  BY <1>7, <1>8, Zenon
<1>10. l = IF buckets[b] = 0 THEN 0 ELSE g[buckets[b]]
  BY <1>8 DEF ChainEnd
<1>11. \A i \in 1 .. N : g[i] = IF next[i] = 0 THEN i ELSE g[next[i]]
  BY <1>2, <1>9, Zenon
<1> HIDE DEF Loop
<1> DEFINE Right(i) == g[i] \in 1 .. nodesUsed /\ BucketOf(g[i]) = b /\ next[g[i]] = 0
<1>12. PICK G : G = {p \in 1 .. N + 1 : \A i \in 1 .. nodesUsed :
                       i >= p /\ BucketOf(i) = b => Right(i)}
  OBVIOUS
<1>13. N + 1 \in G
  <2>1. \A i \in 1 .. nodesUsed : ~(i >= N + 1)
    BY <1>2
  <2>2. QED BY <1>12, <2>1
<1>14. ASSUME NEW p \in 1 .. N, p + 1 \in G PROVE p \in G
  <2>1. \A i \in 1 .. nodesUsed : i >= p + 1 /\ BucketOf(i) = b => Right(i)
    BY <1>12, <1>14
  <2>2. ASSUME p \in 1 .. nodesUsed, BucketOf(p) = b PROVE Right(p)
    <3>1. CASE next[p] = 0
      <4>1. g[p] = p
        BY <1>11, <3>1
      <4>2. QED BY <2>2, <3>1, <4>1
    <3>2. CASE next[p] # 0
      <4>1. g[p] = g[next[p]]
        BY <1>11, <3>2
      <4>2. FirstBehind(p, b, next[p])
        BY <1>2, <2>2 DEF TableIInv, Chained
      <4>3. next[p] \in 1 .. nodesUsed /\ next[p] > p /\ BucketOf(next[p]) = b
        BY <3>2, <4>2, Zenon DEF FirstBehind
      <4>4. next[p] \in 0 .. N
        BY <1>2
      <4>5. next[p] >= p + 1
        <5>1. PICK y \in 0 .. N : y = next[p]
          BY <4>4
        <5>2. y > p
          BY <4>3, <5>1, Zenon
        <5>3. y >= p + 1
          BY <5>2
        <5>4. QED BY <5>1, <5>3, Zenon
      <4>6. Right(next[p])
        BY <2>1, <4>3, <4>5
      <4>7. QED BY <4>1, <4>6
    <3>3. QED BY <3>1, <3>2
  <2> HIDE DEF Right
  <2>3. \A i \in 1 .. nodesUsed : i >= p => i = p \/ i >= p + 1
    OBVIOUS
  <2>4. QED BY <1>12, <2>1, <2>2, <2>3
<1>15. \A p \in 1 .. N + 1 : p \in G
  BY <1>13, <1>14, FromTheLast
<1>16. ASSUME buckets[b] # 0 PROVE Right(buckets[b])
  <2> HIDE DEF Right
  <2>1. FirstBehind(0, b, buckets[b])
    BY <1>1, <1>2 DEF TableIInv, Chained
  <2>2. buckets[b] \in 1 .. nodesUsed /\ BucketOf(buckets[b]) = b /\ buckets[b] >= 1
    BY <1>16, <2>1 DEF FirstBehind
  <2>3. 1 \in G
    BY <1>15
  <2>4. QED BY <1>12, <2>2, <2>3
<1>17. CASE buckets[b] = 0
  BY <1>10, <1>17
<1>18. CASE buckets[b] # 0
  <2>1. l = g[buckets[b]] /\ Right(buckets[b])
    BY <1>10, <1>16, <1>18
  <2>2. l # 0
    BY <2>1
  <2>3. QED BY <1>18, <2>1, <2>2
<1>19. QED BY <1>17, <1>18

-----------------------------------------------------------------------------
(* What is stored.                                                          *)

StoredData == Values \cup {Zero}

\* The pairs in the order in which they came.
LEMMA PairsAre ==
  ASSUME TableTypeOK
  PROVE  /\ Pairs \in Seq(Keys \X StoredData) /\ Len(Pairs) = nodesUsed /\ DOMAIN Pairs = 1 .. nodesUsed
         /\ Pairs = [i \in 1 .. nodesUsed |-> data[i]]
<1>1. PICK n \in Nat : n = nodesUsed
  BY AllocatedIs DEF TableTypeOK
<1>2. Pairs = [i \in 1 .. n |-> data[i]]
  <2>1. PICK N \in Nat : N = nodesAllocated
    BY AllocatedIs
  <2>2. PICK D : D = {data[i] : i \in 1 .. N}
    OBVIOUS
  <2>3. data \in [1 .. N -> D] /\ n \in 0 .. N
    <3>1. data = [i \in 1 .. N |-> data[i]]
      BY <2>1 DEF TableTypeOK, Slots
    <3>2. \A i \in 1 .. N : data[i] \in D
      BY <2>2
    <3>3. n \in 0 .. N
      BY <1>1, <2>1 DEF TableTypeOK
    <3>4. QED BY <3>1, <3>2, <3>3
  <2>4. data \in Seq(D) /\ Len(data) = N
    BY <2>3
  <2>5. /\ SubSeq(data, 1, n) \in Seq(D) /\ Len(SubSeq(data, 1, n)) = n
        /\ \A i \in 1 .. n : SubSeq(data, 1, n)[i] = data[i]
    BY <2>3, <2>4
  <2>6. SubSeq(data, 1, n) = [i \in 1 .. n |-> data[i]]
    BY <2>5
  <2>7. QED BY <1>1, <2>6 DEF Pairs
<1>3. \A i \in 1 .. n : data[i] \in Keys \X StoredData
  BY <1>1 DEF TableTypeOK, StoredData
<1>4. Pairs \in Seq(Keys \X StoredData) /\ Len(Pairs) = n /\ DOMAIN Pairs = 1 .. n
  BY <1>2, <1>3
<1>5. QED BY <1>1, <1>2, <1>4

\* The dictionary has a key exactly where the lookup finds it.
LEMMA HasIs ==
  ASSUME TableIInv, NEW k \in Keys
  PROVE  /\ Lookup(k) = 0 => ~Dictionary!Has(k)
         /\ Lookup(k) # 0 => /\ Dictionary!Has(k) /\ Dictionary!At(k) = Lookup(k)
                             /\ Lookup(k) \in 1 .. nodesUsed /\ data[Lookup(k)][1] = k
<1>1. DOMAIN Pairs = 1 .. nodesUsed /\ \A i \in 1 .. nodesUsed : Pairs[i] = data[i]
  BY PairsAre DEF TableIInv
<1>2. PICK l : l = Lookup(k)
  OBVIOUS
<1>3. /\ l = 0 => \A i \in 1 .. nodesUsed : data[i][1] # k
      /\ l # 0 => l \in 1 .. nodesUsed /\ data[l][1] = k
  BY <1>2, LookupIs
<1>4. CASE l = 0
  BY <1>1, <1>2, <1>3, <1>4 DEF Dictionary!Has
<1>5. CASE l # 0
  <2>1. l \in DOMAIN Pairs /\ Pairs[l][1] = k
    BY <1>1, <1>3, <1>5
  <2>2. \A i \in DOMAIN Pairs : Pairs[i][1] = k => i = l
    BY <1>1, <1>3, <1>5 DEF TableIInv, OncePerKey
  <2>3. Dictionary!At(k) = l
    BY <2>1, <2>2 DEF Dictionary!At
  <2>4. QED BY <1>2, <1>3, <1>5, <2>1, <2>3 DEF Dictionary!Has
<1>6. QED BY <1>4, <1>5

\* A new pair ends the chain of its bucket.
LEMMA NewPairKeeps ==
  ASSUME TableIInv, NEW k \in Keys, NEW v \in StoredData, Lookup(k) = 0, NewPair(k, v), hash' = hash
  PROVE  TableIInv' /\ Pairs' = Append(Pairs, <<k, v>>)
<1>1. PICK N \in Nat \ {0} : N = nodesAllocated
  BY AllocatedIs
<1>2. PICK u \in 0 .. N, n \in 1 .. N : u = nodesUsed /\ n = u + 1 /\ u < N
  <2>1. nodesUsed \in 0 .. N /\ nodesUsed < N
    BY <1>1 DEF TableIInv, TableTypeOK, NewPair
  <2>2. nodesUsed + 1 \in 1 .. N
    BY <2>1
  <2>3. QED BY <2>1, <2>2
<1>3. PICK b \in 0 .. N - 1 : b = Bucket(k)
  BY <1>1, BucketIs DEF TableIInv, TableTypeOK
<1>4. /\ Slots = 1 .. N /\ next \in [1 .. N -> 0 .. N] /\ buckets \in [0 .. N - 1 -> 0 .. N]
      /\ DOMAIN data = 1 .. N /\ data = [i \in 1 .. N |-> data[i]] /\ hash \in [Keys -> Nat]
      /\ \A i \in 1 .. u : data[i] \in Keys \X StoredData
  BY <1>1, <1>2 DEF TableIInv, TableTypeOK, Slots, StoredData
<1>5. PICK end : end = ChainEnd(b)
  OBVIOUS
<1>6. /\ end = 0 => buckets[b] = 0
      /\ end # 0 => end \in 1 .. u /\ BucketOf(end) = b /\ buckets[b] # 0 /\ next[end] = 0
  BY <1>1, <1>2, <1>5, ChainEndIs
<1>7. /\ nodesUsed' = n /\ data' = [data EXCEPT ![n] = <<k, v>>]
      /\ IF end = 0 THEN buckets' = [buckets EXCEPT ![b] = n] /\ next' = next
                    ELSE next' = [next EXCEPT ![end] = n] /\ buckets' = buckets
  BY <1>2, <1>3, <1>5 DEF NewPair
<1>8. /\ DOMAIN data' = 1 .. N /\ data' = [i \in 1 .. N |-> data'[i]]
      /\ data'[n] = <<k, v>> /\ \A i \in 1 .. N : i # n => data'[i] = data[i]
  BY <1>4, <1>7
<1>9. Slots' = Slots /\ nodesAllocated' = nodesAllocated
  BY DEF Slots, nodesAllocated, AlignNextPower2
<1>10. n \in 0 .. N
  OBVIOUS
<1>11. next' \in [1 .. N -> 0 .. N] /\ buckets' \in [0 .. N - 1 -> 0 .. N]
  <2>1. CASE end = 0
    BY <1>4, <1>7, <1>10, <2>1
  <2>2. CASE end # 0
    BY <1>4, <1>7, <1>10, <2>2
  <2>3. QED BY <2>1, <2>2
<1>12. \A i \in 1 .. n : i # n => i \in 1 .. u
  BY <1>2
<1>13. \A i \in 1 .. u : i \in 1 .. N /\ i # n /\ i \in 1 .. n
  BY <1>2
<1>14. TableTypeOK'
  <2>1. ASSUME NEW i \in 1 .. n PROVE data'[i] \in Keys \X StoredData
    <3>1. CASE i = n
      <4>1. <<k, v>> \in Keys \X StoredData
        OBVIOUS
      <4>2. data'[i] = <<k, v>>
        BY <1>8, <3>1, Zenon
      <4>3. QED BY <4>1, <4>2
    <3>2. CASE i # n
      BY <1>4, <1>8, <1>12, <1>13, <3>2
    <3>3. QED BY <3>1, <3>2
  <2>2. QED BY <1>1, <1>4, <1>7, <1>8, <1>9, <1>10, <1>11, <2>1 DEF TableTypeOK, StoredData
<1>15. OncePerKey'
  <2>1. \A i \in 1 .. u : data[i][1] # k
    BY <1>2, LookupIs
  <2>2. ASSUME NEW i \in 1 .. n, NEW j \in 1 .. n, data'[i][1] = data'[j][1] PROVE i = j
    <3>1. CASE i # n /\ j # n
      <4>1. data[i][1] = data[j][1] /\ i \in 1 .. nodesUsed /\ j \in 1 .. nodesUsed
        BY <1>2, <1>8, <1>12, <1>13, <2>2, <3>1
      <4>2. QED BY <4>1 DEF TableIInv, OncePerKey
    <3>2. CASE i = n /\ j # n
      <4>1. j \in 1 .. u /\ data'[j] = data[j] /\ data'[i][1] = k
        BY <1>8, <1>12, <1>13, <3>2
      <4>2. QED BY <2>1, <2>2, <4>1
    <3>3. CASE i # n /\ j = n
      <4>1. i \in 1 .. u /\ data'[i] = data[i] /\ data'[j][1] = k
        BY <1>8, <1>12, <1>13, <3>3
      <4>2. QED BY <2>1, <2>2, <4>1
    <3>4. QED BY <3>1, <3>2, <3>3
  <2>3. QED BY <1>7, <2>2 DEF OncePerKey
<1> DEFINE B == [m \in 1 .. n |-> IF m = n THEN b ELSE BucketOf(m)]
<1>16. /\ B[n] = b /\ \A i \in 1 .. u : B[i] = BucketOf(i)
       /\ \A i \in 1 .. n : BucketOf(i)' = B[i]
  <2>1. data'[n][1] = k /\ \A i \in 1 .. u : data'[i] = data[i]
    BY <1>8, <1>13
  <2>2. \A x : Bucket(x)' = Bucket(x)
    BY <1>9 DEF Bucket
  <2>3. BucketOf(n)' = b /\ \A i \in 1 .. u : BucketOf(i)' = BucketOf(i)
    BY <1>3, <2>1, <2>2 DEF BucketOf, Bucket
  <2>4. n \in 1 .. n
    OBVIOUS
  <2>5. B[n] = b /\ \A i \in 1 .. u : B[i] = BucketOf(i)
    BY <1>13, <2>4
  <2>6. QED BY <1>12, <2>3, <2>5
<1> HIDE DEF B
<1>17. \A i, c, j : FirstBehind(i, c, j) <=>
         /\ j # 0 => j \in 1 .. u /\ j > i /\ BucketOf(j) = c
         /\ \A m \in 1 .. u : m > i /\ BucketOf(m) = c => j # 0 /\ j <= m
  BY <1>2, Zenon DEF FirstBehind
<1> DEFINE New(i, c, j) ==
         /\ j # 0 => j \in 1 .. n /\ j > i /\ B[j] = c
         /\ \A m \in 1 .. n : m > i /\ B[m] = c => j # 0 /\ j <= m
<1>18. ASSUME NEW i \in 0 .. u, NEW c, NEW j, j \in 0 .. N, FirstBehind(i, c, j), c # b \/ j # 0
       PROVE  New(i, c, j)
  <2>1. j # 0 => j \in 1 .. u /\ j > i /\ BucketOf(j) = c
    BY <1>17, <1>18
  <2>2. j # 0 => j \in 1 .. n /\ j > i /\ B[j] = c
    BY <1>13, <1>16, <2>1
  <2>3. ASSUME NEW m \in 1 .. n, m > i, B[m] = c PROVE j # 0 /\ j <= m
    <3>1. CASE m = n
      <4>1. j # 0
        BY <1>16, <1>18, <2>3, <3>1
      <4>2. j <= n
        BY <2>2, <4>1
      <4>3. QED BY <3>1, <4>1, <4>2
    <3>2. CASE m # n
      <4>1. m \in 1 .. u /\ BucketOf(m) = c
        BY <1>12, <1>16, <2>3, <3>2
      <4>2. QED BY <1>17, <1>18, <2>3, <4>1
    <3>3. QED BY <3>1, <3>2
  <2>4. QED BY <2>2, <2>3
<1>19. ASSUME NEW i \in 0 .. u, FirstBehind(i, b, 0) PROVE New(i, b, n)
  <2>1. n # 0 /\ n \in 1 .. n /\ n > i /\ B[n] = b
    BY <1>2, <1>16
  <2>2. ASSUME NEW m \in 1 .. n, m > i, B[m] = b PROVE n <= m
    <3>1. CASE m = n
      BY <3>1
    <3>2. CASE m # n
      <4>1. m \in 1 .. u /\ BucketOf(m) = b
        BY <1>12, <1>16, <2>2, <3>2
      <4>2. FALSE
        BY <1>17, <1>19, <2>2, <4>1
      <4>3. QED BY <4>2
    <3>3. QED BY <3>1, <3>2
  <2>3. QED BY <2>1, <2>2
<1>20. New(n, b, 0)
  <2>1. \A m \in 1 .. n : ~(m > n)
    OBVIOUS
  <2>2. QED BY <2>1
<1> HIDE DEF New
<1>21. 0 \in 0 .. u /\ \A i \in 1 .. u : i \in 0 .. u
  OBVIOUS
<1>22. /\ \A c \in 0 .. N - 1 : FirstBehind(0, c, buckets[c]) /\ buckets[c] \in 0 .. N
       /\ \A i \in 1 .. u : FirstBehind(i, BucketOf(i), next[i]) /\ next[i] \in 0 .. N
       /\ \A i \in 1 .. N : i > u => next[i] = 0
  BY <1>1, <1>2, <1>4, <1>13 DEF TableIInv, Chained
<1>23. ASSUME NEW c \in 0 .. N - 1 PROVE New(0, c, buckets'[c])
  <2>1. CASE end = 0 /\ c = b
    <3>1. buckets'[c] = n /\ FirstBehind(0, b, 0)
      BY <1>4, <1>6, <1>7, <1>22, <2>1
    <3>2. QED BY <1>19, <1>21, <2>1, <3>1
  <2>2. CASE ~(end = 0 /\ c = b)
    <3>1. buckets'[c] = buckets[c] /\ (c # b \/ buckets[c] # 0)
      BY <1>4, <1>6, <1>7, <2>2
    <3>2. QED BY <1>18, <1>21, <1>22, <3>1
  <2>3. QED BY <2>1, <2>2
<1>24. ASSUME NEW i \in 1 .. u, i = end \/ BucketOf(i) # b \/ next[i] # 0
       PROVE  New(i, BucketOf(i), next'[i])
  <2>1. CASE i = end
    <3>1. end # 0
      BY <2>1
    <3>2. next'[i] = n /\ BucketOf(i) = b /\ FirstBehind(i, b, 0)
      BY <1>4, <1>6, <1>7, <1>13, <1>22, <2>1, <3>1
    <3>3. QED BY <1>19, <1>21, <3>2
  <2>2. CASE i # end
    <3>1. next'[i] = next[i]
      <4>1. CASE end = 0
        BY <1>7, <4>1
      <4>2. CASE end # 0
        BY <1>4, <1>7, <1>13, <2>2, <4>2
      <4>3. QED BY <4>1, <4>2
    <3>2. QED BY <1>18, <1>21, <1>22, <1>24, <2>2, <3>1
  <2>3. QED BY <2>1, <2>2
<1>25. ASSUME NEW i \in 1 .. u PROVE i = end \/ BucketOf(i) # b \/ next[i] # 0
  <2>1. SUFFICES ASSUME BucketOf(i) = b, next[i] = 0 PROVE i = end
    OBVIOUS
  <2>2. FirstBehind(i, b, 0)
    BY <1>22, <2>1
  <2>3. end # 0
    <3>1. FirstBehind(0, b, buckets[b])
      BY <1>22
    <3>2. buckets[b] # 0
      BY <1>17, <2>1, <3>1
    <3>3. QED BY <1>6, <3>2
  <2>4. end \in 1 .. u /\ BucketOf(end) = b /\ FirstBehind(end, b, 0)
    BY <1>6, <1>22, <2>3
  <2>5. ~(end > i) /\ ~(i > end)
    BY <1>17, <2>1, <2>2, <2>4
  <2>6. QED BY <2>4, <2>5
<1>26. next'[n] = 0
  <2>1. next[n] = 0
    BY <1>2, <1>22
  <2>2. end # n
    BY <1>2, <1>6
  <2>3. CASE end = 0
    BY <1>7, <2>1, <2>3
  <2>4. CASE end # 0
    BY <1>4, <1>7, <2>1, <2>2, <2>4
  <2>5. QED BY <2>3, <2>4
<1>27. ASSUME NEW i \in 1 .. N, i > n PROVE next'[i] = 0
  <2>1. next[i] = 0
    BY <1>2, <1>22, <1>27
  <2>2. end # i
    BY <1>2, <1>6, <1>27
  <2>3. CASE end = 0
    BY <1>7, <2>1, <2>3
  <2>4. CASE end # 0
    BY <1>4, <1>7, <2>1, <2>2, <2>4
  <2>5. QED BY <2>3, <2>4
<1>28. ASSUME NEW i \in 1 .. n PROVE New(i, B[i], next'[i])
  <2>1. CASE i = n
    BY <1>16, <1>20, <1>26, <2>1
  <2>2. CASE i # n
    BY <1>12, <1>16, <1>24, <1>25, <2>2
  <2>3. QED BY <2>1, <2>2
<1>29. Chained'
  <2>1. \A c \in 0 .. N - 1 : New(0, c, buckets'[c])
    BY <1>23
  <2>2. \A i \in 1 .. n : New(i, B[i], next'[i])
    BY <1>28
  <2>3. \A i \in 1 .. N : i > n => next'[i] = 0
    BY <1>27
  <2>4. nodesUsed' = n /\ nodesAllocated' = N /\ Slots' = 1 .. N
    BY <1>1, <1>4, <1>7, <1>9
  <2>5. ASSUME NEW c \in 0 .. N - 1 PROVE FirstBehind(0, c, buckets[c])'
    <3>1. PICK j : j = buckets'[c]
      OBVIOUS
    <3>2. New(0, c, j)
      BY <2>1, <3>1
    <3>3. /\ j # 0 => j \in 1 .. nodesUsed' /\ j > 0 /\ BucketOf(j)' = c
          /\ \A m \in 1 .. nodesUsed' : m > 0 /\ BucketOf(m)' = c => j # 0 /\ j <= m
      BY <1>16, <2>4, <3>2, Zenon DEF New
    <3>4. QED BY <3>1, <3>3, Zenon DEF FirstBehind
  <2>6. ASSUME NEW i \in 1 .. n PROVE FirstBehind(i, BucketOf(i), next[i])'
    <3>1. PICK j : j = next'[i]
      OBVIOUS
    <3>2. New(i, B[i], j)
      BY <2>2, <3>1
    <3>3. /\ j # 0 => j \in 1 .. nodesUsed' /\ j > i /\ BucketOf(j)' = BucketOf(i)'
          /\ \A m \in 1 .. nodesUsed' : m > i /\ BucketOf(m)' = BucketOf(i)' => j # 0 /\ j <= m
      BY <1>16, <2>4, <3>2, Zenon DEF New
    <3>4. QED BY <3>1, <3>3, Zenon DEF FirstBehind
  <2>7. QED BY <2>3, <2>4, <2>5, <2>6, Zenon DEF Chained
<1>30. Pairs' = Append(Pairs, <<k, v>>)
  <2>1. Pairs' = [i \in 1 .. n |-> data'[i]]
    <3>1. (TableTypeOK => Pairs = [i \in 1 .. nodesUsed |-> data[i]])'
      BY PairsAre, PTL
    <3>2. QED BY <1>7, <1>14, <3>1
  <2>2. Pairs \in Seq(Keys \X StoredData) /\ Len(Pairs) = u /\ \A i \in 1 .. u : Pairs[i] = data[i]
    BY <1>2, PairsAre DEF TableIInv
  <2>3. Append(Pairs, <<k, v>>) = [i \in 1 .. u + 1 |-> IF i = u + 1 THEN <<k, v>> ELSE Pairs[i]]
    BY <2>2
  <2>4. \A i \in 1 .. n : data'[i] = IF i = u + 1 THEN <<k, v>> ELSE Pairs[i]
    BY <1>2, <1>8, <1>12, <1>13, <2>2
  <2>5. QED BY <1>2, <2>1, <2>3, <2>4
<1>31. QED BY <1>14, <1>15, <1>29, <1>30 DEF TableIInv

\* Data that is overwritten stays where it is.
LEMMA OverwriteKeeps ==
  ASSUME TableIInv, NEW k \in Keys, NEW v \in StoredData, NEW l \in 1 .. nodesUsed, data[l][1] = k,
         Overwrite(l, v), hash' = hash
  PROVE  TableIInv' /\ Pairs' = [Pairs EXCEPT ![l] = <<k, v>>]
<1>1. PICK N \in Nat \ {0} : N = nodesAllocated
  BY AllocatedIs
<1>2. PICK u \in 0 .. N : u = nodesUsed
  BY <1>1 DEF TableIInv, TableTypeOK
<1>3. /\ Slots = 1 .. N /\ DOMAIN data = 1 .. N /\ data = [i \in 1 .. N |-> data[i]]
      /\ \A i \in 1 .. u : data[i] \in Keys \X StoredData
  BY <1>1, <1>2 DEF TableIInv, TableTypeOK, Slots, StoredData
<1>4. l \in 1 .. u /\ l \in 1 .. N
  BY <1>2
<1>5. data[l] = <<k, data[l][2]>>
  <2>1. data[l] \in Keys \X StoredData
    BY <1>3, <1>4
  <2>2. QED BY <2>1
<1>6. data' = [data EXCEPT ![l] = <<k, v>>]
  <2>1. [data[l] EXCEPT ![2] = v] = <<k, v>>
    <3>1. PICK w : w = data[l][2]
      OBVIOUS
    <3>2. [<<k, w>> EXCEPT ![2] = v] = <<k, v>>
      OBVIOUS
    <3>3. QED BY <1>5, <3>1, <3>2, Zenon
  <2>2. data' = [data EXCEPT ![l] = [data[l] EXCEPT ![2] = v]]
    BY <1>3, <1>4 DEF Overwrite
  <2>3. QED BY <2>1, <2>2, Zenon
<1>7. /\ DOMAIN data' = 1 .. N /\ data' = [i \in 1 .. N |-> data'[i]]
      /\ data'[l] = <<k, v>> /\ \A i \in 1 .. N : i # l => data'[i] = data[i]
  BY <1>3, <1>4, <1>6
<1>8. UNCHANGED <<nodesUsed, buckets, next>>
  BY DEF Overwrite
<1>9. \A i \in 1 .. u : data'[i][1] = data[i][1] /\ data'[i] \in Keys \X StoredData
  <2>1. ASSUME NEW i \in 1 .. u PROVE data'[i][1] = data[i][1] /\ data'[i] \in Keys \X StoredData
    <3>1. CASE i = l
      <4>1. data'[i] = <<k, v>> /\ data[i][1] = k
        BY <1>7, <3>1
      <4>2. QED BY <4>1
    <3>2. CASE i # l
      <4>1. data'[i] = data[i]
        BY <1>2, <1>7, <3>2
      <4>2. QED BY <1>3, <4>1
    <3>3. QED BY <3>1, <3>2
  <2>2. QED BY <2>1
<1>10. Slots' = Slots /\ nodesAllocated' = nodesAllocated
  BY DEF Slots, nodesAllocated, AlignNextPower2
<1>11. TableTypeOK'
  BY <1>2, <1>3, <1>7, <1>8, <1>9, <1>10 DEF TableIInv, TableTypeOK, StoredData
<1>12. OncePerKey'
  BY <1>2, <1>8, <1>9 DEF TableIInv, OncePerKey
<1>13. \A i \in 1 .. u : BucketOf(i)' = BucketOf(i)
  BY <1>9 DEF BucketOf, Bucket, nodesAllocated, AlignNextPower2
<1>14. Chained'
  <2>1. ASSUME NEW i, NEW c, NEW j PROVE FirstBehind(i, c, j)' <=> FirstBehind(i, c, j)
    <3>1. nodesUsed' = u /\ nodesUsed = u
      BY <1>2, <1>8
    <3>2. \A m \in 1 .. u : BucketOf(m)' = BucketOf(m)
      BY <1>13
    <3>3. QED BY <3>1, <3>2, Zenon DEF FirstBehind
  <2>2. ASSUME NEW i \in 1 .. u PROVE FirstBehind(i, BucketOf(i), next[i])'
    <3>1. FirstBehind(i, BucketOf(i), next[i])
      BY <1>2 DEF TableIInv, Chained
    <3>2. FirstBehind(i, BucketOf(i)', next[i]')
      BY <1>8, <1>13, <3>1
    <3>3. FirstBehind(i, BucketOf(i)', next[i]') <=> FirstBehind(i, BucketOf(i), next[i])'
      BY <1>2, <1>8, <1>13, Zenon DEF FirstBehind
    <3>4. QED BY <3>2, <3>3
  <2>3. ASSUME NEW c \in 0 .. N - 1 PROVE FirstBehind(0, c, buckets[c])'
    <3>1. FirstBehind(0, c, buckets[c])
      BY <1>1 DEF TableIInv, Chained
    <3>2. QED BY <1>2, <1>8, <1>13, <3>1, Zenon DEF FirstBehind
  <2>4. \A i \in Slots' : i > nodesUsed' => next'[i] = 0
    BY <1>8, <1>10 DEF TableIInv, Chained
  <2>5. nodesAllocated' = N /\ nodesUsed' = u
    BY <1>1, <1>2, <1>8, <1>10
  <2>6. QED BY <2>2, <2>3, <2>4, <2>5, Zenon DEF Chained
<1>15. Pairs' = [Pairs EXCEPT ![l] = <<k, v>>]
  <2>1. Pairs' = [i \in 1 .. u |-> data'[i]]
    <3>1. (TableTypeOK => Pairs = [i \in 1 .. nodesUsed |-> data[i]])'
      BY PairsAre, PTL
    <3>2. QED BY <1>2, <1>8, <1>11, <3>1
  <2>2. DOMAIN Pairs = 1 .. u /\ Pairs = [i \in 1 .. u |-> data[i]]
    BY <1>2, PairsAre DEF TableIInv
  <2>3. \A i \in 1 .. u : data'[i] = IF i = l THEN <<k, v>> ELSE data[i]
    BY <1>2, <1>7
  <2>4. QED BY <1>4, <2>1, <2>2, <2>3
<1>16. QED BY <1>11, <1>12, <1>14, <1>15 DEF TableIInv

\* What a map that is not written keeps.
LEMMA UnchangedKeeps == TableIInv /\ Unchanged /\ hash' = hash => TableIInv' /\ Pairs' = Pairs
<1> SUFFICES ASSUME TableIInv, Unchanged, hash' = hash PROVE TableIInv' /\ Pairs' = Pairs
  OBVIOUS
<1>1. UNCHANGED <<nodesUsed, buckets, next, data>>
  BY DEF Unchanged
<1>2. Slots' = Slots /\ nodesAllocated' = nodesAllocated
  BY DEF Slots, nodesAllocated, AlignNextPower2
<1>3. TableTypeOK'
  BY <1>1, <1>2 DEF TableIInv, TableTypeOK
<1>4. \A x : Bucket(x)' = Bucket(x)
  BY <1>2 DEF Bucket
<1>5. \A i : BucketOf(i)' = BucketOf(i)
  BY <1>1, <1>2 DEF BucketOf, Bucket
<1>6. \A i \in 1 .. nodesUsed : FirstBehind(i, BucketOf(i), next[i])'
  BY <1>1, <1>5, Zenon DEF FirstBehind, TableIInv, Chained
<1>7. \A c \in 0 .. nodesAllocated - 1 : FirstBehind(0, c, buckets[c])'
  BY <1>1, <1>5, Zenon DEF FirstBehind, TableIInv, Chained
<1>8. \A i \in Slots : i > nodesUsed' => next'[i] = 0
  BY <1>1 DEF TableIInv, Chained
<1>9. Chained'
  BY <1>1, <1>2, <1>6, <1>7, <1>8, Zenon DEF Chained
<1>10. OncePerKey'
  BY <1>1 DEF TableIInv, OncePerKey
<1>11. Pairs' = Pairs
  BY <1>1 DEF Pairs
<1>12. QED BY <1>3, <1>9, <1>10, <1>11 DEF TableIInv

\* What Store does to the pairs.
LEMMA StoreKeeps ==
  ASSUME TableIInv, NEW k \in Keys, NEW v \in StoredData, Store(k, v), hash' = hash
  PROVE  /\ TableIInv'
         /\ Dictionary!Has(k) => Pairs' = [Pairs EXCEPT ![Dictionary!At(k)] = <<k, v>>]
         /\ ~Dictionary!Has(k) => Pairs' = Append(Pairs, <<k, v>>)
<1>1. CASE Lookup(k) = 0
  <2>1. NewPair(k, v)
    BY <1>1 DEF Store
  <2>2. ~Dictionary!Has(k)
    BY <1>1, HasIs
  <2>3. QED BY <1>1, <2>1, <2>2, NewPairKeeps
<1>2. CASE Lookup(k) # 0
  <2>1. PICK l : l = Lookup(k)
    OBVIOUS
  <2>2. Overwrite(l, v)
    BY <1>2, <2>1 DEF Store
  <2>3. /\ Dictionary!Has(k) /\ Dictionary!At(k) = l /\ l \in 1 .. nodesUsed /\ data[l][1] = k
    BY <1>2, <2>1, HasIs
  <2>4. TableIInv' /\ Pairs' = [Pairs EXCEPT ![l] = <<k, v>>]
    BY <2>2, <2>3, OverwriteKeeps
  <2>5. QED BY <2>3, <2>4
<1>3. QED BY <1>1, <1>2

\* What reading tells.
LEMMA ContentIs ==
  ASSUME TableIInv, NEW k \in Keys
  PROVE  (Exists(k) <=> Dictionary!Has(k)) /\ Content(k) = Dictionary!Found(k)
<1>1. DOMAIN Pairs = 1 .. nodesUsed /\ \A i \in 1 .. nodesUsed : Pairs[i] = data[i]
  BY PairsAre DEF TableIInv
<1>2. CASE nodesUsed = 0
  <2>1. ~Dictionary!Has(k)
    BY <1>1, <1>2 DEF Dictionary!Has
  <2>2. ~Exists(k)
    BY <1>2 DEF Exists, Pointer
  <2>3. QED BY <2>1, <2>2 DEF Content, Dictionary!Found
<1>3. CASE nodesUsed # 0
  <2>1. Pointer(k) = Lookup(k)
    BY <1>3 DEF Pointer
  <2>2. CASE Lookup(k) = 0
    <3>1. ~Dictionary!Has(k) /\ ~Exists(k)
      BY <2>1, <2>2, HasIs DEF Exists
    <3>2. QED BY <3>1 DEF Content, Dictionary!Found
  <2>3. CASE Lookup(k) # 0
    <3>1. /\ Dictionary!Has(k) /\ Exists(k) /\ Dictionary!At(k) = Lookup(k)
          /\ Lookup(k) \in 1 .. nodesUsed
      BY <2>1, <2>3, HasIs DEF Exists
    <3>2. Pairs[Dictionary!At(k)] = data[Pointer(k)]
      BY <1>1, <2>1, <3>1
    <3>3. QED BY <3>1, <3>2 DEF Content, Dictionary!Found
  <2>4. QED BY <2>2, <2>3
<1>4. QED BY <1>2, <1>3

-----------------------------------------------------------------------------
(* Each operation is the dictionary's.                                      *)

LEMMA TableStart == hash \in [Keys -> Nat] /\ PushHashmap => TableIInv /\ Dictionary!DictInit
<1> SUFFICES ASSUME hash \in [Keys -> Nat], PushHashmap PROVE TableIInv /\ Dictionary!DictInit
  OBVIOUS
<1>1. PICK N \in Nat \ {0} : N = nodesAllocated
  BY AllocatedIs
<1>2. /\ nodesUsed = 0 /\ buckets = [b \in 0 .. N - 1 |-> 0] /\ next = [i \in 1 .. N |-> 0]
      /\ data = [i \in 1 .. N |-> NoPair] /\ told = Array(<<>>) /\ Slots = 1 .. N
  BY <1>1 DEF PushHashmap, Empty, NoNext, Slots
<1>3. 0 \in 0 .. N /\ (1 .. 0) = {}
  OBVIOUS
<1>4. TableTypeOK
  <2>1. buckets \in [0 .. N - 1 -> 0 .. N] /\ next \in [1 .. N -> 0 .. N]
    BY <1>2
  <2>2. DOMAIN data = 1 .. N /\ data = [i \in 1 .. N |-> data[i]]
    BY <1>2
  <2>3. \A i \in 1 .. nodesUsed : data[i] \in Keys \X (Values \cup {Zero})
    BY <1>2, <1>3
  <2>4. QED BY <1>1, <1>2, <1>3, <2>1, <2>2, <2>3 DEF TableTypeOK
<1>5. Chained
  <2>1. \A i, c : FirstBehind(i, c, 0)
    BY <1>2, <1>3 DEF FirstBehind
  <2>2. \A c \in 0 .. N - 1 : buckets[c] = 0
    BY <1>2
  <2>3. \A i \in 1 .. N : next[i] = 0
    BY <1>2
  <2>4. QED BY <1>1, <1>2, <1>3, <2>1, <2>2, <2>3 DEF Chained
<1>6. OncePerKey
  BY <1>2, <1>3 DEF OncePerKey
<1>7. Pairs = <<>>
  <2>1. Pairs \in Seq(Keys \X StoredData) /\ Len(Pairs) = 0
    BY <1>2, <1>4, PairsAre
  <2>2. QED BY <2>1
<1>8. QED BY <1>2, <1>4, <1>5, <1>6, <1>7 DEF TableIInv, Dictionary!DictInit, Array, Dictionary!Array

LEMMA InsertIs ==
  ASSUME TableIInv, NEW k \in Keys, NEW v \in StoredData, Insert(k, v), hash' = hash
  PROVE  TableIInv' /\ Dictionary!Insert(k, v)
<1>1. Store(k, v) /\ told' = Data(k, <<v>>)
  BY DEF Insert
<1>2. /\ TableIInv'
      /\ Dictionary!Has(k) => Pairs' = [Pairs EXCEPT ![Dictionary!At(k)] = <<k, v>>]
      /\ ~Dictionary!Has(k) => Pairs' = Append(Pairs, <<k, v>>)
  BY <1>1, StoreKeeps
<1>3. told' = Dictionary!Data(k, <<v>>)
  BY <1>1 DEF Data, Dictionary!Data
<1>4. QED BY <1>2, <1>3 DEF Dictionary!Insert, Dictionary!Add

LEMMA GetIs ==
  ASSUME TableIInv, NEW k \in Keys, Get(k), hash' = hash
  PROVE  TableIInv' /\ Pairs' = Pairs /\ told' = Dictionary!Data(k, Dictionary!Found(k))
<1>1. Unchanged /\ told' = Data(k, Content(k))
  BY DEF Get
<1>2. QED BY <1>1, UnchangedKeeps, ContentIs DEF Data, Dictionary!Data

LEMMA InsertIfNotExistIs ==
  ASSUME TableIInv, NEW k \in Keys, NEW v \in StoredData, InsertIfNotExist(k, v), hash' = hash
  PROVE  TableIInv' /\ Dictionary!InsertIfNotExist(k, v)
<1>1. CASE Exists(k)
  <2>1. Unchanged /\ told' = Data(k, <<>>) /\ Dictionary!Has(k)
    BY <1>1, ContentIs DEF InsertIfNotExist
  <2>2. TableIInv' /\ Pairs' = Pairs /\ told' = Dictionary!Data(k, <<>>)
    BY <2>1, UnchangedKeeps DEF Data, Dictionary!Data
  <2>3. QED BY <2>1, <2>2 DEF Dictionary!InsertIfNotExist
<1>2. CASE ~Exists(k)
  <2>1. Insert(k, v) /\ ~Dictionary!Has(k)
    BY <1>2, ContentIs DEF InsertIfNotExist
  <2>2. TableIInv' /\ Dictionary!Insert(k, v)
    BY <2>1, InsertIs
  <2>3. QED BY <2>1, <2>2 DEF Dictionary!InsertIfNotExist, Dictionary!Insert
<1>3. QED BY <1>1, <1>2

LEMMA CheckOrInsertIs ==
  ASSUME TableIInv, NEW k \in Keys, NEW v \in StoredData, CheckOrInsert(k, v), hash' = hash
  PROVE  TableIInv' /\ Dictionary!CheckOrInsert(k, v)
<1>1. told' = Dictionary!Existed(k, Dictionary!Has(k))
  <2>1. told' = <<"existed", k, Exists(k)>>
    BY DEF CheckOrInsert, Existed
  <2>2. Exists(k) = Dictionary!Has(k)
    BY ContentIs, Zenon DEF Exists, Dictionary!Has
  <2>3. QED BY <2>1, <2>2, Zenon DEF Dictionary!Existed
<1>2. CASE Exists(k)
  <2>1. Unchanged /\ Dictionary!Has(k)
    BY <1>2, ContentIs DEF CheckOrInsert
  <2>2. QED BY <1>1, <2>1, UnchangedKeeps DEF Dictionary!CheckOrInsert
<1>3. CASE ~Exists(k)
  <2>1. Store(k, v) /\ ~Dictionary!Has(k)
    BY <1>3, ContentIs DEF CheckOrInsert
  <2>2. TableIInv' /\ Pairs' = Append(Pairs, <<k, v>>)
    BY <2>1, StoreKeeps
  <2>3. QED BY <1>1, <2>1, <2>2 DEF Dictionary!CheckOrInsert, Dictionary!Add
<1>4. QED BY <1>2, <1>3

LEMMA GetOrInsertIs ==
  ASSUME TableIInv, NEW k \in Keys, NEW v \in StoredData, GetOrInsert(k, v), hash' = hash
  PROVE  TableIInv' /\ Dictionary!GetOrInsert(k, v)
<1>1. CASE Exists(k)
  <2>1. Get(k) /\ Dictionary!Has(k)
    BY <1>1, ContentIs DEF GetOrInsert
  <2>2. QED BY <2>1, GetIs DEF Dictionary!GetOrInsert
<1>2. CASE ~Exists(k)
  <2>1. Insert(k, v) /\ ~Dictionary!Has(k)
    BY <1>2, ContentIs DEF GetOrInsert
  <2>2. TableIInv' /\ Dictionary!Insert(k, v)
    BY <2>1, InsertIs
  <2>3. QED BY <2>1, <2>2 DEF Dictionary!GetOrInsert, Dictionary!Insert
<1>3. QED BY <1>1, <1>2

LEMMA GetOrAllocateIs ==
  ASSUME TableIInv, NEW k \in Keys, GetOrAllocate(k), hash' = hash
  PROVE  TableIInv' /\ Dictionary!GetOrAllocate(k)
<1>1. CASE Exists(k)
  <2>1. Unchanged /\ told' = Data(k, Content(k) \o <<TRUE>>) /\ Dictionary!Has(k)
    BY <1>1, ContentIs DEF GetOrAllocate
  <2>2. told' = Dictionary!Data(k, Dictionary!Found(k) \o <<TRUE>>)
    BY <2>1, ContentIs, Zenon DEF Data, Dictionary!Data
  <2>3. TableIInv' /\ Pairs' = Pairs
    BY <2>1, UnchangedKeeps
  <2>4. QED BY <2>1, <2>2, <2>3, Zenon DEF Dictionary!GetOrAllocate
<1>2. CASE ~Exists(k)
  <2>1. Store(k, Zero) /\ told' = Data(k, <<Zero, FALSE>>) /\ ~Dictionary!Has(k)
    BY <1>2, ContentIs DEF GetOrAllocate
  <2>2. Zero \in StoredData
    BY DEF StoredData
  <2>3. TableIInv' /\ Pairs' = Append(Pairs, <<k, Zero>>)
    BY <2>1, <2>2, StoreKeeps
  <2>4. told' = Dictionary!Data(k, <<Zero, FALSE>>)
    BY <2>1, Zenon DEF Data, Dictionary!Data
  <2>5. QED BY <2>1, <2>3, <2>4, Zenon DEF Dictionary!GetOrAllocate, Dictionary!Add
<1>3. QED BY <1>1, <1>2

LEMMA ArrayIs ==
  ASSUME TableIInv, PushHashmapArray, hash' = hash PROVE TableIInv' /\ Dictionary!AsArray
<1>1. Unchanged /\ told' = Array(Pairs)
  BY DEF PushHashmapArray
<1>2. QED BY <1>1, UnchangedKeeps DEF Array, Dictionary!Array, Dictionary!AsArray

LEMMA ClearIs ==
  ASSUME TableIInv, Clear, hash' = hash PROVE TableIInv' /\ Dictionary!Clear
<1>1. PICK N \in Nat \ {0} : N = nodesAllocated
  BY AllocatedIs
<1>2. /\ nodesUsed' = 0 /\ buckets' = [b \in 0 .. N - 1 |-> 0] /\ next' = [i \in 1 .. N |-> 0]
      /\ data' = data /\ told' = Array(<<>>) /\ Slots = 1 .. N
  BY <1>1 DEF Clear, Empty, NoNext, Slots
<1>3. Slots' = Slots /\ nodesAllocated' = nodesAllocated
  BY DEF Slots, nodesAllocated, AlignNextPower2
<1>4. 0 \in 0 .. N /\ (1 .. 0) = {}
  OBVIOUS
<1>5. TableTypeOK'
  <2>1. buckets' \in [0 .. N - 1 -> 0 .. N] /\ next' \in [1 .. N -> 0 .. N]
    BY <1>2
  <2>2. \A i \in 1 .. nodesUsed' : data'[i] \in Keys \X (Values \cup {Zero})
    BY <1>2, <1>4
  <2>3. hash \in [Keys -> Nat] /\ DOMAIN data = Slots /\ data = [i \in Slots |-> data[i]]
    BY DEF TableIInv, TableTypeOK
  <2>4. QED BY <1>1, <1>2, <1>3, <1>4, <2>1, <2>2, <2>3 DEF TableTypeOK
<1>6. Chained'
  <2>1. \A c \in 0 .. N - 1 : FirstBehind(0, c, buckets[c])'
    BY <1>2, <1>4 DEF FirstBehind
  <2>2. \A i \in 1 .. nodesUsed' : FirstBehind(i, BucketOf(i), next[i])'
    BY <1>2, <1>4
  <2>3. \A i \in Slots' : i > nodesUsed' => next'[i] = 0
    BY <1>2, <1>3
  <2>4. QED BY <1>1, <1>3, <2>1, <2>2, <2>3, Zenon DEF Chained
<1>7. OncePerKey'
  BY <1>2, <1>4 DEF OncePerKey
<1>8. Pairs' = <<>>
  <2>1. (TableTypeOK => Pairs \in Seq(Keys \X StoredData) /\ Len(Pairs) = nodesUsed)'
    BY PairsAre, PTL
  <2>2. Pairs' \in Seq(Keys \X StoredData) /\ Len(Pairs') = 0
    BY <1>2, <1>5, <2>1 DEF StoredData
  <2>3. QED BY <2>2
<1>9. QED BY <1>2, <1>5, <1>6, <1>7, <1>8 DEF TableIInv, Dictionary!Clear, Array, Dictionary!Array

LEMMA TableStep ==
  TableIInv /\ [HashmapNext /\ UNCHANGED hash]_<<hash, hashmapVars>>
    => TableIInv' /\ [Dictionary!DictNext]_(Dictionary!dictVars)
<1> SUFFICES ASSUME TableIInv, [HashmapNext /\ UNCHANGED hash]_<<hash, hashmapVars>>
             PROVE  TableIInv' /\ [Dictionary!DictNext]_(Dictionary!dictVars)
  OBVIOUS
<1>1. ASSUME NEW k \in Keys, NEW v \in Values, hash' = hash, Insert(k, v)
      PROVE  TableIInv' /\ Dictionary!DictNext
  <2>1. v \in StoredData
    BY DEF StoredData
  <2>2. QED BY <1>1, <2>1, InsertIs DEF Dictionary!DictNext
<1>2. ASSUME NEW k \in Keys, NEW v \in Values, hash' = hash, InsertIfNotExist(k, v)
      PROVE  TableIInv' /\ Dictionary!DictNext
  <2>1. v \in StoredData
    BY DEF StoredData
  <2>2. QED BY <1>2, <2>1, InsertIfNotExistIs DEF Dictionary!DictNext
<1>3. ASSUME NEW k \in Keys, NEW v \in Values, hash' = hash, CheckOrInsert(k, v)
      PROVE  TableIInv' /\ Dictionary!DictNext
  <2>1. v \in StoredData
    BY DEF StoredData
  <2>2. QED BY <1>3, <2>1, CheckOrInsertIs DEF Dictionary!DictNext
<1>4. ASSUME NEW k \in Keys, NEW v \in Values, hash' = hash, GetOrInsert(k, v)
      PROVE  TableIInv' /\ Dictionary!DictNext
  <2>1. v \in StoredData
    BY DEF StoredData
  <2>2. QED BY <1>4, <2>1, GetOrInsertIs DEF Dictionary!DictNext
<1>5. ASSUME NEW k \in Keys, hash' = hash, GetOrAllocate(k)
      PROVE  TableIInv' /\ Dictionary!DictNext
  BY <1>5, GetOrAllocateIs DEF Dictionary!DictNext
<1>6. ASSUME NEW k \in Keys, hash' = hash, Get(k) PROVE TableIInv' /\ Dictionary!DictNext
  BY <1>6, GetIs DEF Dictionary!DictNext, Dictionary!Get
<1>7. CASE PushHashmapArray /\ hash' = hash
  BY <1>7, ArrayIs DEF Dictionary!DictNext
<1>8. CASE Clear /\ hash' = hash
  BY <1>8, ClearIs DEF Dictionary!DictNext
<1>9. CASE UNCHANGED <<hash, hashmapVars>>
  <2>1. Unchanged /\ hash' = hash /\ told' = told
    BY <1>9 DEF hashmapVars, Unchanged
  <2>2. QED BY <2>1, UnchangedKeeps DEF Dictionary!dictVars
<1>10. QED
  BY <1>1, <1>2, <1>3, <1>4, <1>5, <1>6, <1>7, <1>8, <1>9 DEF HashmapNext

\* The hash map is the dictionary (memory.hpp:770-1030), for any keys and data,
\* any number of elements it is made for and any hash: a lookup finds the pair of
\* a key wherever its chain starts, and iterates in the order of insertion.
THEOREM MapIsDictionary == HashmapSpec => IsDictionary
<1>1. hash \in [Keys -> Nat] /\ PushHashmap => TableIInv /\ Dictionary!DictInit
  BY TableStart
<1>2. TableIInv /\ [HashmapNext /\ UNCHANGED hash]_<<hash, hashmapVars>>
        => TableIInv' /\ [Dictionary!DictNext]_(Dictionary!dictVars)
  BY TableStep
<1>3. QED BY <1>1, <1>2, PTL DEF HashmapSpec, IsDictionary, Dictionary!DictSpec

-----------------------------------------------------------------------------
(* Arenas.                                                                  *)

FrameType == [temp : ContextArenas, outs : SUBSET Arenas, mark : 0 .. ArenaSize,
              single : SUBSET SingleUse]
ArrayType == [id : Nat, arena : Arenas, owner : Nat \ {0}, data : Nat \ {0},
              size : Nat, capacity : Nat \ {0}]

ArenaTypeOK ==
  /\ used \in [Arenas -> 0 .. ArenaSize]
  /\ memory \in [Arenas -> [1 .. ArenaSize -> Nat \X Nat]]
  /\ frames \in Seq(FrameType)
  /\ Len(frames) > 0
  /\ arrays \subseteq ArrayType
  /\ IsFiniteSet(arrays)

\* The arenas function f took.
Taken(f) == {frames[f].temp} \cup frames[f].single

\* A single use arena is taken by one function; a result goes to an arena that a
\* caller took, and never to the one that is taken for temporary data.
Discipline ==
  /\ \A f, g \in DOMAIN frames : f # g => frames[f].single \cap frames[g].single = {}
  /\ \A f \in DOMAIN frames : \A a \in frames[f].outs :
       a # frames[f].temp /\ \E g \in 1 .. f - 1 : a \in Taken(g)

\* The marks of an arena grow with the depth.
Marks ==
  /\ \A f \in DOMAIN frames : frames[f].mark <= used[frames[f].temp]
  /\ \A f, g \in DOMAIN frames :
       f < g /\ frames[f].temp = frames[g].temp => frames[f].mark <= frames[g].mark

\* An array lies in an arena its owner took, and before the mark of each function
\* called later that took the arena for its temporary data.
Region(r) ==
  /\ r.size <= r.capacity
  /\ r.data + r.capacity - 1 <= used[r.arena]
  /\ r.owner \in DOMAIN frames /\ r.arena \in Taken(r.owner)
  /\ \A f \in DOMAIN frames :
       f > r.owner /\ frames[f].temp = r.arena => r.data + r.capacity - 1 <= frames[f].mark

Apart(r, s) == r.data + r.capacity <= s.data \/ s.data + s.capacity <= r.data

Regions ==
  /\ \A r \in arrays : Region(r)
  /\ \A r, s \in arrays : r # s => r.id # s.id /\ (r.arena = s.arena => Apart(r, s))

IInv == ArenaTypeOK /\ Discipline /\ Marks /\ Regions /\ LiveDataIntact

-----------------------------------------------------------------------------
(* The choices the code makes are well defined.                             *)

LEMMA MaxIs ==
  ASSUME NEW n \in Nat, NEW S \in SUBSET (1 .. n), S # {}
  PROVE  Max(S) \in S /\ \A y \in S : Max(S) >= y
<1> DEFINE T == {n - i : i \in S}
<1>1. T \in SUBSET Nat /\ T # {}
  <2>1. \A i \in S : n - i \in Nat
    OBVIOUS
  <2>2. PICK i \in S : TRUE
    OBVIOUS
  <2>3. n - i \in T
    BY <2>2
  <2>4. T \subseteq Nat
    BY <2>1
  <2>5. QED BY <2>3, <2>4
<1>2. Min(T) \in T /\ \A y \in T : Min(T) <= y
  BY <1>1, MinIs
<1>3. PICK i \in S : Min(T) = n - i
  BY <1>2
<1>4. ASSUME NEW j \in S PROVE i >= j
  <2>1. n - j \in T
    OBVIOUS
  <2>2. n - i <= n - j
    BY <1>2, <1>3, <2>1
  <2>3. QED BY <2>2
<1>5. QED BY <1>4 DEF Max

\* The arena for temporary data is a context arena that results do not go to.
LEMMA GetArena2Avoids ==
  ASSUME NEW diff \in Arenas \cup {NoArena}, NEW diff2 \in Arenas \cup {NoArena},
         GetArena2(diff, diff2) # NoArena
  PROVE  GetArena2(diff, diff2) \in ContextArenas \ {diff, diff2}
BY DEF GetArena2, GetArena, NoArena, ContextArenas

LEMMA ArenasAre ==
  /\ ContextArenas \cap SingleUse = {} /\ ContextArenas \subseteq Arenas /\ SingleUse \subseteq Arenas
  /\ SingleUse \subseteq Nat /\ NoArena \notin Arenas /\ ArenaSize \in Nat /\ MaxArrays \in Nat
BY ArenaAssumption DEF ContextArenas, SingleUse, Arenas, NoArena

\* A new array gets the number no other one has.
LEMMA NewIdIsNew ==
  ASSUME IInv, Cardinality(arrays) < MaxArrays
  PROVE  NewId \in Nat /\ \A r \in arrays : r.id # NewId
<1>1. IsFiniteSet(arrays) /\ MaxArrays \in Nat
  BY ArenasAre DEF IInv, ArenaTypeOK
<1>2. \E id \in 1 .. MaxArrays : \A r \in arrays : r.id # id
  <2>1. SUFFICES ASSUME \A id \in 1 .. MaxArrays : \E r \in arrays : r.id = id PROVE FALSE
    OBVIOUS
  <2> DEFINE h == [id \in 1 .. MaxArrays |-> CHOOSE r \in arrays : r.id = id]
  <2>2. \A id \in 1 .. MaxArrays : h[id] \in arrays /\ h[id].id = id
    BY <2>1
  <2>3. h \in Injection(1 .. MaxArrays, arrays)
    <3>1. h \in [1 .. MaxArrays -> arrays]
      BY <2>2
    <3> HIDE DEF h
    <3>2. \A a, b \in 1 .. MaxArrays : h[a] = h[b] => a = b
      BY <2>2
    <3>3. QED BY <3>1, <3>2 DEF Injection, IsInjective
  <2>4. Cardinality(1 .. MaxArrays) <= Cardinality(arrays)
    BY <1>1, <2>3, FS_Injection
  <2>5. Cardinality(1 .. MaxArrays) = MaxArrays
    BY <1>1, FS_Interval
  <2>6. Cardinality(arrays) \in Nat
    BY <1>1, FS_CardinalityType
  <2>7. QED BY <1>1, <2>4, <2>5, <2>6
<1>3. QED BY <1>2 DEF NewId

-----------------------------------------------------------------------------
\* The owner of what is pushed to an arena is a function that took it, and no
\* function in between has it for temporary data.
LEMMA OwnerIs ==
  ASSUME IInv, NEW a \in Writable
  PROVE  /\ a \in Arenas
         /\ Owner(a) \in DOMAIN frames /\ a \in Taken(Owner(a))
         /\ \A f \in DOMAIN frames : f > Owner(a) => frames[f].temp # a
<1> DEFINE n    == Len(frames)
           last == IF a \in Current.outs THEN n - 1 ELSE n
           S    == {f \in 1 .. last : a \in {frames[f].temp} \cup frames[f].single}
<1>1. /\ n \in Nat \ {0} /\ DOMAIN frames = 1 .. n /\ Current = frames[n]
      /\ frames[n] \in FrameType
  BY LenProperties DEF IInv, ArenaTypeOK, Current
<1>2. a \in {frames[n].temp} \cup frames[n].outs \cup frames[n].single
  BY <1>1 DEF Writable
<1>3. a \in Arenas
  <2>1. frames[n].temp \in Arenas /\ frames[n].outs \subseteq Arenas /\ frames[n].single \subseteq Arenas
    BY <1>1, ArenasAre DEF FrameType
  <2>2. QED BY <1>2, <2>1
<1>4. S # {}
  <2>1. CASE a \in frames[n].outs
    <3>1. PICK g \in 1 .. n - 1 : a \in Taken(g)
      BY <1>1, <2>1 DEF IInv, Discipline
    <3>2. g \in S
      BY <1>1, <2>1, <3>1 DEF Taken
    <3>3. QED BY <3>2
  <2>2. CASE a \notin frames[n].outs
    <3>1. n \in S
      BY <1>1, <1>2, <2>2
    <3>2. QED BY <3>1
  <2>3. QED BY <2>1, <2>2
<1>5. last \in Nat /\ S \in SUBSET (1 .. last)
  BY <1>1
<1>6. Max(S) \in S /\ \A f \in S : Max(S) >= f
  BY <1>4, <1>5, MaxIs
<1>7. Owner(a) = Max(S)
  BY DEF Owner
<1>8. Owner(a) \in DOMAIN frames /\ a \in Taken(Owner(a))
  BY <1>1, <1>6, <1>7 DEF Taken
<1>9. ASSUME NEW f \in DOMAIN frames, f > Owner(a) PROVE frames[f].temp # a
  <2>1. CASE f \in 1 .. last
    <3>1. SUFFICES ASSUME frames[f].temp = a PROVE FALSE
      OBVIOUS
    <3>2. f \in S
      BY <2>1, <3>1
    <3>3. Owner(a) >= f /\ Owner(a) \in Nat /\ f \in Nat
      BY <1>1, <1>6, <1>7, <1>8, <2>1, <3>2
    <3>4. QED BY <1>9, <3>3
  <2>2. CASE f \notin 1 .. last
    <3>1. f = n /\ a \in frames[n].outs
      BY <1>1, <2>2
    <3>2. QED BY <1>1, <3>1 DEF IInv, Discipline
  <2>3. QED BY <2>1, <2>2
<1>10. QED BY <1>3, <1>8, <1>9

-----------------------------------------------------------------------------
(* Each operation keeps the invariant.                                      *)

LEMMA Start == ArenaInit => IInv
<1> SUFFICES ASSUME ArenaInit PROVE IInv
  OBVIOUS
<1>1. /\ frames = <<Frame(0, {}, 0)>> /\ arrays = {}
      /\ Frame(0, {}, 0) \in FrameType
  BY ArenasAre DEF ArenaInit, FrameType, Frame, ContextArenas
<1>2. frames \in Seq(FrameType) /\ Len(frames) = 1 /\ DOMAIN frames = {1} /\ frames[1] = Frame(0, {}, 0)
  BY <1>1
<1>3. ArenaTypeOK
  BY <1>1, <1>2, ArenasAre, FS_EmptySet DEF ArenaInit, ArenaTypeOK, Poison
<1>4. Discipline
  BY <1>2 DEF Discipline, Frame
<1>5. Marks
  BY <1>2, ArenasAre DEF Marks, Frame, ArenaInit, ContextArenas, Arenas
<1>6. Regions /\ LiveDataIntact
  BY <1>1 DEF Regions, LiveDataIntact
<1>7. QED BY <1>3, <1>4, <1>5, <1>6 DEF IInv

LEMMA CallKeeps ==
  ASSUME IInv, NEW diff \in Arenas \cup {NoArena}, NEW diff2 \in Arenas \cup {NoArena},
         Call(diff, diff2)
  PROVE  IInv'
<1> DEFINE temp == GetArena2(diff, diff2)
           outs == {diff, diff2} \ {NoArena}
           new  == Frame(temp, outs, used[temp])
           n    == Len(frames)
<1>1. /\ {diff, diff2} \subseteq Writable \cup {NoArena} /\ temp # NoArena
      /\ frames' = Append(frames, new) /\ UNCHANGED <<used, memory, arrays>>
  BY DEF Call
<1>2. /\ frames \in Seq(FrameType) /\ n \in Nat \ {0} /\ DOMAIN frames = 1 .. n
      /\ used \in [Arenas -> 0 .. ArenaSize]
  BY LenProperties DEF IInv, ArenaTypeOK
<1>3. temp \in ContextArenas \ {diff, diff2} /\ temp \in Arenas
  BY <1>1, GetArena2Avoids, ArenasAre
<1>4. /\ new \in FrameType /\ new.temp = temp /\ new.outs \subseteq {diff, diff2} \cap Arenas
      /\ new.mark = used[temp] /\ new.single = {}
  <2> HIDE DEF temp
  <2>1. outs \in SUBSET Arenas
    OBVIOUS
  <2>2. QED BY <1>2, <1>3, <2>1 DEF FrameType, Frame
<1> HIDE DEF temp, outs, new
<1>5. /\ frames' \in Seq(FrameType) /\ Len(frames') = n + 1 /\ DOMAIN frames' = 1 .. n + 1
      /\ \A f \in 1 .. n : frames'[f] = frames[f]
      /\ frames'[n + 1] = new
  BY <1>1, <1>2, <1>4
<1>6. ArenaTypeOK'
  BY <1>1, <1>2, <1>5 DEF IInv, ArenaTypeOK
<1>7. Discipline'
  <2>1. ASSUME NEW f \in 1 .. n + 1, NEW g \in 1 .. n + 1, f # g
        PROVE  frames'[f].single \cap frames'[g].single = {}
    <3>1. CASE f = n + 1 \/ g = n + 1
      BY <1>4, <1>5, <3>1
    <3>2. CASE f \in 1 .. n /\ g \in 1 .. n
      BY <1>2, <1>5, <2>1, <3>2 DEF IInv, Discipline
    <3>3. QED BY <1>2, <3>1, <3>2
  <2>2. ASSUME NEW f \in 1 .. n + 1, NEW a \in frames'[f].outs
        PROVE  a # frames'[f].temp /\ \E g \in 1 .. f - 1 : a \in Taken(g)'
    <3>1. CASE f = n + 1
      <4>1. a \in Writable /\ a # temp
        BY <1>1, <1>3, <1>4, <1>5, <3>1, ArenasAre
      <4>2. PICK g \in 1 .. n : a \in Taken(g)
        BY <1>2, <4>1, OwnerIs
      <4>3. a \in Taken(g)'
        BY <1>5, <4>2 DEF Taken
      <4>4. n + 1 - 1 = n
        BY <1>2
      <4>5. QED BY <1>4, <1>5, <3>1, <4>1, <4>3, <4>4
    <3>2. CASE f \in 1 .. n
      <4>1. a \in frames[f].outs /\ frames'[f] = frames[f]
        BY <1>5, <3>2
      <4>2. a # frames[f].temp
        BY <1>2, <3>2, <4>1 DEF IInv, Discipline
      <4>3. PICK g \in 1 .. f - 1 : a \in Taken(g)
        BY <1>2, <3>2, <4>1 DEF IInv, Discipline
      <4>4. g \in 1 .. n
        BY <1>2, <3>2
      <4>5. a \in Taken(g)'
        BY <1>5, <4>3, <4>4 DEF Taken
      <4>6. QED BY <4>1, <4>2, <4>5
    <3>3. QED BY <1>2, <3>1, <3>2
  <2>3. QED BY <1>5, <2>1, <2>2 DEF Discipline
<1>8. Marks'
  <2>1. ASSUME NEW f \in 1 .. n
        PROVE  /\ frames'[f] = frames[f] /\ frames[f].mark <= used[frames[f].temp]
               /\ frames[f].temp = temp => frames[f].mark <= used[temp]
    <3>1. f \in DOMAIN frames
      BY <1>2
    <3>2. frames[f].mark <= used[frames[f].temp]
      BY <3>1, Zenon DEF IInv, Marks
    <3>3. QED BY <1>5, <3>2
  <2>2. \A f, g \in 1 .. n :
          f < g /\ frames[f].temp = frames[g].temp => frames[f].mark <= frames[g].mark
    BY <1>2, Zenon DEF IInv, Marks
  <2>3. used[temp] \in Nat /\ used[temp] <= used[temp]
    BY <1>2, <1>3
  <2>4. frames'[n + 1].temp = temp /\ frames'[n + 1].mark = used[temp]
    BY <1>4, <1>5
  <2>5. ASSUME NEW f \in 1 .. n + 1 PROVE frames'[f].mark <= used'[frames'[f].temp]
    <3>1. CASE f = n + 1
      BY <1>1, <2>3, <2>4, <3>1
    <3>2. CASE f \in 1 .. n
      BY <1>1, <2>1, <3>2
    <3>3. QED BY <1>2, <3>1, <3>2
  <2>6. ASSUME NEW f \in 1 .. n + 1, NEW g \in 1 .. n + 1, f < g,
               frames'[f].temp = frames'[g].temp
        PROVE  frames'[f].mark <= frames'[g].mark
    <3>1. f \in 1 .. n
      BY <1>2, <2>6
    <3>2. CASE g = n + 1
      BY <2>1, <2>4, <2>6, <3>1, <3>2, Zenon
    <3>3. CASE g \in 1 .. n
      BY <2>1, <2>2, <2>6, <3>1, <3>3, Zenon
    <3>4. QED BY <1>2, <3>2, <3>3
  <2>7. QED BY <1>5, <2>5, <2>6, Zenon DEF Marks
<1>9. Regions' /\ LiveDataIntact'
  <2>1. ASSUME NEW r \in arrays PROVE Region(r)'
    <3>1. Region(r) /\ r \in ArrayType
      BY DEF IInv, Regions, ArenaTypeOK
    <3>2. r.owner \in 1 .. n /\ r.arena \in Taken(r.owner)'
      BY <1>2, <1>5, <3>1 DEF Region, Taken
    <3>3. ASSUME NEW f \in 1 .. n + 1, f > r.owner, frames'[f].temp = r.arena
          PROVE  r.data + r.capacity - 1 <= frames'[f].mark
      <4>1. CASE f = n + 1
        BY <1>4, <1>5, <3>1, <3>3, <4>1 DEF Region
      <4>2. CASE f \in 1 .. n
        BY <1>2, <1>5, <3>1, <3>3, <4>2 DEF Region
      <4>3. QED BY <1>2, <4>1, <4>2
    <3>4. QED BY <1>1, <1>5, <3>1, <3>2, <3>3 DEF Region
  <2>2. QED BY <1>1, <2>1 DEF IInv, Regions, LiveDataIntact, Cell, Apart
<1>10. QED BY <1>6, <1>7, <1>8, <1>9 DEF IInv

LEMMA SingleUseKeeps == IInv /\ GetSingleUseArena => IInv'
<1> SUFFICES ASSUME IInv, GetSingleUseArena PROVE IInv'
  OBVIOUS
<1> DEFINE taken == UNION {frames[f].single : f \in DOMAIN frames}
           free  == SingleUse \ taken
           a     == Min(free)
           n     == Len(frames)
<1>1. /\ free # {} /\ UNCHANGED <<used, memory, arrays>>
      /\ frames' = [frames EXCEPT ![n].single = @ \cup {a}]
  BY DEF GetSingleUseArena
<1>2. a \in SingleUse /\ a \notin taken
  <2>1. free \in SUBSET Nat
    BY ArenasAre
  <2>2. a \in free
    BY <1>1, <2>1, MinIs
  <2>3. QED BY <2>2
<1> HIDE DEF a
<1>3. /\ frames \in Seq(FrameType) /\ n \in Nat \ {0} /\ DOMAIN frames = 1 .. n
      /\ \A f \in 1 .. n : frames[f] \in FrameType
  BY LenProperties DEF IInv, ArenaTypeOK
<1>4. [frames[n] EXCEPT !.single = @ \cup {a}] \in FrameType
  BY <1>2, <1>3 DEF FrameType
<1>5. /\ frames' \in Seq(FrameType) /\ Len(frames') = n /\ DOMAIN frames' = 1 .. n
      /\ \A f \in 1 .. n : f # n => frames'[f] = frames[f]
      /\ frames'[n] = [frames[n] EXCEPT !.single = @ \cup {a}]
  <2>1. frames' = [frames EXCEPT ![n] = [frames[n] EXCEPT !.single = @ \cup {a}]]
    BY <1>1
  <2>2. n \in 1 .. Len(frames)
    BY <1>3
  <2>3. QED BY <1>3, <1>4, <2>1, <2>2, ExceptSeq, LenProperties
<1>6. \A f \in 1 .. n : /\ frames'[f].temp = frames[f].temp /\ frames'[f].outs = frames[f].outs
                        /\ frames'[f].mark = frames[f].mark
                        /\ frames[f].single \subseteq frames'[f].single
                        /\ frames'[f].single \subseteq frames[f].single \cup (IF f = n THEN {a} ELSE {})
                        /\ a \notin frames[f].single
                        /\ Taken(f) \subseteq Taken(f)'
  <2> SUFFICES ASSUME NEW f \in 1 .. n
               PROVE  /\ frames'[f].temp = frames[f].temp /\ frames'[f].outs = frames[f].outs
                      /\ frames'[f].mark = frames[f].mark
                      /\ frames[f].single \subseteq frames'[f].single
                      /\ frames'[f].single \subseteq frames[f].single \cup (IF f = n THEN {a} ELSE {})
                      /\ a \notin frames[f].single
                      /\ Taken(f) \subseteq Taken(f)'
    OBVIOUS
  <2>1. frames[f] \in FrameType /\ a \notin frames[f].single
    BY <1>2, <1>3
  <2>2. CASE f = n
    BY <1>5, <2>1, <2>2 DEF FrameType, Taken
  <2>3. CASE f # n
    BY <1>5, <2>1, <2>3 DEF Taken
  <2>4. QED BY <2>2, <2>3
<1>7. ArenaTypeOK'
  BY <1>1, <1>3, <1>5 DEF IInv, ArenaTypeOK
<1>8. Discipline'
  <2>1. ASSUME NEW f \in 1 .. n, NEW g \in 1 .. n, f # g
        PROVE  frames'[f].single \cap frames'[g].single = {}
    <3>1. frames[f].single \cap frames[g].single = {}
      BY <1>3, <2>1 DEF IInv, Discipline
    <3>2. QED BY <1>6, <2>1, <3>1
  <2>2. ASSUME NEW f \in 1 .. n, NEW b \in frames'[f].outs
        PROVE  b # frames'[f].temp /\ \E g \in 1 .. f - 1 : b \in Taken(g)'
    <3>1. PICK g \in 1 .. f - 1 : b \in Taken(g)
      BY <1>3, <1>6 DEF IInv, Discipline
    <3>2. g \in 1 .. n
      BY <1>3
    <3>3. b \in Taken(g)'
      BY <1>6, <3>1, <3>2
    <3>4. b # frames[f].temp
      BY <1>3, <1>6 DEF IInv, Discipline
    <3>5. QED BY <1>6, <3>3, <3>4
  <2>3. QED BY <1>5, <2>1, <2>2 DEF Discipline
<1>9. Marks'
  BY <1>1, <1>3, <1>5, <1>6 DEF IInv, Marks
<1>10. Regions' /\ LiveDataIntact'
  <2>1. ASSUME NEW r \in arrays PROVE Region(r)'
    <3>1. Region(r)
      BY DEF IInv, Regions
    <3>2. QED BY <1>1, <1>3, <1>5, <1>6, <3>1 DEF Region
  <2>2. QED BY <1>1, <2>1 DEF IInv, Regions, LiveDataIntact, Cell, Apart
<1>11. QED BY <1>7, <1>8, <1>9, <1>10 DEF IInv

\* What outlives the function that returns is before its mark or elsewhere.
LEMMA OutlivesReturn ==
  ASSUME IInv, Return, NEW r \in arrays, r.owner < Len(frames)
  PROVE  r.data + r.capacity - 1 <= used'[r.arena]
<1> DEFINE n == Len(frames)
<1>1. /\ n \in Nat /\ n > 1 /\ DOMAIN frames = 1 .. n /\ Current = frames[n]
      /\ \A f \in 1 .. n : frames[f] \in FrameType
      /\ r \in ArrayType
  BY LenProperties DEF IInv, ArenaTypeOK, Return, Current
<1>2. /\ r.data + r.capacity - 1 <= used[r.arena] /\ r.owner \in 1 .. n
      /\ r.arena \in Taken(r.owner)
      /\ frames[n].temp = r.arena => r.data + r.capacity - 1 <= frames[n].mark
  BY <1>1 DEF IInv, Regions, Region
<1>3. r.arena \notin frames[n].single
  <2>1. frames[r.owner].single \cap frames[n].single = {}
    BY <1>1, <1>2 DEF IInv, Discipline
  <2>2. frames[r.owner].temp \notin frames[n].single
    <3>1. frames[r.owner] \in FrameType /\ frames[n] \in FrameType
      BY <1>1, <1>2
    <3>2. QED BY <3>1, ArenasAre DEF FrameType
  <2>3. QED BY <1>2, <2>1, <2>2 DEF Taken
<1>4. used'[r.arena] = IF r.arena = frames[n].temp THEN frames[n].mark ELSE used[r.arena]
  BY <1>1, <1>3 DEF Return, ArrayType
<1>5. QED BY <1>2, <1>4

LEMMA ReturnKeeps == IInv /\ Return => IInv'
<1> SUFFICES ASSUME IInv, Return PROVE IInv'
  OBVIOUS
<1> DEFINE n == Len(frames)
<1>1. /\ n \in Nat /\ n > 1 /\ DOMAIN frames = 1 .. n /\ Current = frames[n]
      /\ \A f \in 1 .. n : frames[f] \in FrameType
      /\ used \in [Arenas -> 0 .. ArenaSize] /\ ArenaSize \in Nat
      /\ frames \in Seq(FrameType)
  BY LenProperties, ArenasAre DEF IInv, ArenaTypeOK, Return, Current
<1>2. /\ used' = [a \in Arenas |-> IF a = frames[n].temp THEN frames[n].mark
                                   ELSE IF a \in frames[n].single THEN 0 ELSE used[a]]
      /\ memory' = [a \in Arenas |-> [i \in 1 .. ArenaSize |->
                       IF i > used'[a] THEN Poison ELSE memory[a][i]]]
      /\ arrays' = {r \in arrays : r.owner < n}
      /\ frames' = SubSeq(frames, 1, n - 1)
  BY <1>1 DEF Return
<1>3. /\ frames' \in Seq(FrameType) /\ Len(frames') = n - 1 /\ DOMAIN frames' = 1 .. n - 1
      /\ \A f \in 1 .. n - 1 : frames'[f] = frames[f]
  <2>1. /\ frames' \in Seq(FrameType) /\ Len(frames') = n - 1
        /\ \A f \in 1 .. n - 1 : frames'[f] = frames[f]
    BY <1>1, <1>2
  <2>2. QED BY <2>1, LenProperties
<1>4. ArenaTypeOK'
  <2>1. used' \in [Arenas -> 0 .. ArenaSize]
    <3>1. frames[n].mark \in 0 .. ArenaSize
      BY <1>1 DEF FrameType
    <3>2. 0 \in 0 .. ArenaSize
      BY <1>1
    <3>3. \A a \in Arenas : used[a] \in 0 .. ArenaSize
      BY <1>1
    <3>4. QED BY <1>2, <3>1, <3>2, <3>3, Zenon
  <2>2. memory' \in [Arenas -> [1 .. ArenaSize -> Nat \X Nat]]
    BY <1>2 DEF IInv, ArenaTypeOK, Poison
  <2>3. arrays' \subseteq ArrayType /\ IsFiniteSet(arrays')
    <3>1. arrays' \in SUBSET arrays
      BY <1>2
    <3>2. QED BY <3>1, FS_Subset DEF IInv, ArenaTypeOK
  <2>4. QED BY <1>1, <1>3, <2>1, <2>2, <2>3 DEF ArenaTypeOK
<1>5. Discipline'
  <2>1. ASSUME NEW f \in 1 .. n - 1, NEW b \in frames'[f].outs
        PROVE  b # frames'[f].temp /\ \E g \in 1 .. f - 1 : b \in Taken(g)'
    <3>1. f \in 1 .. n /\ frames'[f] = frames[f]
      BY <1>1, <1>3
    <3>2. PICK g \in 1 .. f - 1 : b \in Taken(g)
      BY <1>1, <3>1 DEF IInv, Discipline
    <3>3. g \in 1 .. n - 1
      BY <1>1
    <3>4. b \in Taken(g)'
      BY <1>3, <3>2, <3>3 DEF Taken
    <3>5. QED BY <1>1, <3>1, <3>4 DEF IInv, Discipline
  <2>2. ASSUME NEW f \in 1 .. n - 1, NEW g \in 1 .. n - 1, f # g
        PROVE  frames'[f].single \cap frames'[g].single = {}
    <3>1. f \in DOMAIN frames /\ g \in DOMAIN frames
      BY <1>1
    <3>2. frames[f].single \cap frames[g].single = {}
      BY <2>2, <3>1, Zenon DEF IInv, Discipline
    <3>3. QED BY <1>3, <3>2
  <2>3. QED BY <1>3, <2>1, <2>2, Zenon DEF Discipline
<1>6. Marks'
  <2>1. ASSUME NEW f \in 1 .. n - 1 PROVE frames'[f].mark <= used'[frames'[f].temp]
    <3>1. /\ f \in 1 .. n /\ f < n /\ frames'[f] = frames[f] /\ frames[f] \in FrameType
          /\ frames[n] \in FrameType
      BY <1>1, <1>3
    <3>2. frames[f].temp \notin frames[n].single /\ frames[f].temp \in Arenas
      BY <3>1, ArenasAre DEF FrameType
    <3>3. used'[frames[f].temp] = IF frames[f].temp = frames[n].temp THEN frames[n].mark
                                  ELSE used[frames[f].temp]
      BY <1>2, <3>2, Zenon
    <3>4. n \in DOMAIN frames /\ f \in DOMAIN frames
      BY <1>1, <3>1
    <3>5. /\ frames[f].mark <= used[frames[f].temp]
          /\ frames[f].temp = frames[n].temp => frames[f].mark <= frames[n].mark
      BY <3>1, <3>4, Zenon DEF IInv, Marks
    <3>6. CASE frames[f].temp = frames[n].temp
      BY <3>1, <3>6, <3>3, <3>5, Zenon
    <3>7. CASE frames[f].temp # frames[n].temp
      BY <3>1, <3>7, <3>3, <3>5, Zenon
    <3>8. QED BY <3>6, <3>7
  <2>2. ASSUME NEW f \in 1 .. n - 1, NEW g \in 1 .. n - 1, f < g, frames'[f].temp = frames'[g].temp
        PROVE  frames'[f].mark <= frames'[g].mark
    <3>1. f \in 1 .. n /\ g \in 1 .. n /\ frames'[f] = frames[f] /\ frames'[g] = frames[g]
      BY <1>1, <1>3
    <3>2. QED BY <1>1, <2>2, <3>1 DEF IInv, Marks
  <2>3. QED BY <1>3, <2>1, <2>2 DEF Marks
<1>7. Regions' /\ LiveDataIntact'
  <2>1. ASSUME NEW r \in arrays'
        PROVE  Region(r)' /\ \A i \in 1 .. r.size : memory'[r.arena][r.data + i - 1] = Cell(r, i)
    <3>1. /\ r \in arrays /\ r.owner < n /\ Region(r) /\ r \in ArrayType
      BY <1>2, <2>1 DEF IInv, Regions, ArenaTypeOK
    <3>2. r.data + r.capacity - 1 <= used'[r.arena]
      BY <3>1, OutlivesReturn
    <3>3. r.owner \in 1 .. n - 1 /\ r.arena \in Taken(r.owner)'
      <4>1. r.owner \in 1 .. n /\ r.arena \in Taken(r.owner)
        BY <1>1, <3>1, Zenon DEF Region
      <4>2. r.owner \in 1 .. n - 1
        BY <1>1, <3>1, <4>1
      <4>3. QED BY <1>3, <4>1, <4>2 DEF Taken
    <3>4. ASSUME NEW f \in 1 .. n - 1, f > r.owner, frames'[f].temp = r.arena
          PROVE  r.data + r.capacity - 1 <= frames'[f].mark
      <4>1. f \in DOMAIN frames /\ frames'[f] = frames[f]
        BY <1>1, <1>3
      <4>2. QED BY <3>1, <3>4, <4>1 DEF Region
    <3>5. Region(r)'
      BY <1>3, <3>1, <3>2, <3>3, <3>4 DEF Region
    <3>6. ASSUME NEW i \in 1 .. r.size PROVE memory'[r.arena][r.data + i - 1] = Cell(r, i)
      <4>1. used'[r.arena] \in 0 .. ArenaSize /\ r.arena \in Arenas
        BY <1>4, <3>1 DEF ArenaTypeOK, ArrayType
      <4>2. r.data + i - 1 \in 1 .. ArenaSize /\ ~(r.data + i - 1 > used'[r.arena])
        BY <1>1, <3>1, <3>2, <4>1 DEF Region, ArrayType
      <4>3. memory'[r.arena][r.data + i - 1] = memory[r.arena][r.data + i - 1]
        BY <1>2, <4>1, <4>2
      <4>4. QED BY <3>1, <4>3 DEF IInv, LiveDataIntact
    <3>7. QED BY <3>5, <3>6
  <2>2. LiveDataIntact'
    BY <2>1 DEF LiveDataIntact, Region, Cell
  <2>3. QED BY <1>2, <2>1, <2>2 DEF IInv, Regions, Apart
<1>8. QED BY <1>4, <1>5, <1>6, <1>7 DEF IInv

-----------------------------------------------------------------------------
(* The operations on arrays leave the functions alone and only add to what  *)
(* is used.                                                                 *)

LEMMA UsedIs ==
  ASSUME NEW u \in [Arenas -> 0 .. ArenaSize], NEW a \in Arenas
  PROVE  u[a] \in Nat /\ u[a] <= ArenaSize
BY ArenasAre

LEMMA UseGrows ==
  ASSUME IInv, UNCHANGED frames, used' \in [Arenas -> 0 .. ArenaSize],
         \A a \in Arenas : used[a] <= used'[a]
  PROVE  Discipline' /\ Marks'
<1>1. Discipline'
  BY DEF IInv, Discipline, Taken
<1>2. ASSUME NEW f \in DOMAIN frames PROVE frames[f].mark <= used'[frames[f].temp]
  <2>1. frames[f] \in FrameType
    BY LenProperties DEF IInv, ArenaTypeOK
  <2>2. frames[f].temp \in Arenas
    BY <2>1, ArenasAre DEF FrameType
  <2>3. frames[f].mark \in Nat /\ used[frames[f].temp] \in Nat /\ used'[frames[f].temp] \in Nat
    <3>1. used \in [Arenas -> 0 .. ArenaSize]
      BY DEF IInv, ArenaTypeOK
    <3>2. frames[f].mark \in Nat
      BY <2>1, ArenasAre DEF FrameType
    <3>3. QED BY <2>2, <3>1, <3>2, UsedIs
  <2>4. QED BY <2>2, <2>3 DEF IInv, Marks
<1>3. Marks'
  BY <1>2 DEF IInv, Marks
<1>4. QED BY <1>1, <1>3

\* One array is new, or takes the place of another.
LEMMA OneArrayChanges ==
  ASSUME IInv, UNCHANGED frames, used' \in [Arenas -> 0 .. ArenaSize],
         \A a \in Arenas : used[a] <= used'[a],
         memory' \in [Arenas -> [1 .. ArenaSize -> Nat \X Nat]],
         NEW old \in SUBSET arrays, NEW s \in ArrayType, arrays' = old \cup {s},
         Region(s)', \A i \in 1 .. s.size : memory'[s.arena][s.data + i - 1] = Cell(s, i),
         \A q \in old : q.id # s.id /\ (q.arena = s.arena => Apart(q, s)),
         \A q \in old : \A i \in 1 .. q.size :
            memory'[q.arena][q.data + i - 1] = memory[q.arena][q.data + i - 1]
  PROVE  IInv'
<1>1. ArenaTypeOK'
  <2>1. IsFiniteSet(old)
    BY FS_Subset DEF IInv, ArenaTypeOK
  <2>2. IsFiniteSet(arrays')
    BY <2>1, FS_AddElement
  <2>3. arrays' \subseteq ArrayType
    BY DEF IInv, ArenaTypeOK
  <2>4. QED BY <2>2, <2>3 DEF IInv, ArenaTypeOK
<1>2. ASSUME NEW q \in old PROVE Region(q)'
  <2>1. Region(q) /\ q \in ArrayType /\ q.arena \in Arenas
    BY DEF IInv, Regions, ArenaTypeOK, ArrayType
  <2>2. q.data + q.capacity - 1 <= used'[q.arena]
    <3>1. used[q.arena] \in Nat /\ used'[q.arena] \in Nat /\ used[q.arena] <= used'[q.arena]
      BY <2>1, UsedIs DEF IInv, ArenaTypeOK
    <3>2. QED BY <2>1, <3>1 DEF Region, ArrayType
  <2>3. QED BY <2>1, <2>2 DEF Region, Taken
<1>3. Regions'
  <2>1. ASSUME NEW q \in arrays' PROVE Region(q)'
    BY <1>2
  <2>2. ASSUME NEW q \in arrays', NEW r \in arrays', q # r
        PROVE  q.id # r.id /\ (q.arena = r.arena => Apart(q, r))
    <3>1. CASE q \in old /\ r \in old
      BY <2>2, <3>1 DEF IInv, Regions
    <3>2. CASE q = s \/ r = s
      BY <2>2, <3>2 DEF Apart
    <3>3. QED BY <3>1, <3>2
  <2>3. QED BY <2>1, <2>2 DEF Regions, Apart
<1>4. LiveDataIntact'
  <2>1. ASSUME NEW q \in old, NEW i \in 1 .. q.size
        PROVE  memory'[q.arena][q.data + i - 1] = Cell(q, i)
    BY DEF IInv, LiveDataIntact
  <2>2. ASSUME NEW q \in arrays'
        PROVE  /\ q.data + q.capacity - 1 <= used'[q.arena]
               /\ \A i \in 1 .. q.size : memory'[q.arena][q.data + i - 1] = Cell(q, i)
    BY <1>2, <2>1 DEF Region
  <2>3. QED BY <2>2 DEF LiveDataIntact, Cell
<1>5. QED BY <1>1, <1>3, <1>4, UseGrows DEF IInv

LEMMA StartArrayKeeps ==
  ASSUME IInv, NEW a \in Writable, StartGrowableArray(a)
  PROVE  IInv'
<1>0. PICK s : s = [id |-> NewId, arena |-> a, owner |-> Owner(a),
                    data |-> used[a] + 1, size |-> 0, capacity |-> 1]
  OBVIOUS
<1>1. /\ Cardinality(arrays) < MaxArrays /\ used[a] + 1 <= ArenaSize
      /\ used' = [used EXCEPT ![a] = @ + 1] /\ arrays' = arrays \cup {s}
      /\ UNCHANGED <<memory, frames>>
  BY <1>0 DEF StartGrowableArray, Fits
<1>2. /\ a \in Arenas /\ Owner(a) \in DOMAIN frames /\ a \in Taken(Owner(a))
      /\ \A f \in DOMAIN frames : f > Owner(a) => frames[f].temp # a
  BY OwnerIs
<1>3. NewId \in Nat /\ \A r \in arrays : r.id # NewId
  BY <1>1, NewIdIsNew
<1>4. used \in [Arenas -> 0 .. ArenaSize] /\ ArenaSize \in Nat /\ used[a] \in Nat
      /\ DOMAIN frames = 1 .. Len(frames) /\ Len(frames) \in Nat
  BY <1>2, ArenasAre, LenProperties DEF IInv, ArenaTypeOK
<1>5. used' \in [Arenas -> 0 .. ArenaSize] /\ used'[a] = used[a] + 1
      /\ \A b \in Arenas : used[b] <= used'[b]
  BY <1>1, <1>2, <1>4
<1>6. /\ s \in ArrayType /\ s.size = 0 /\ s.capacity = 1 /\ s.data = used[a] + 1 /\ s.arena = a
      /\ s.id = NewId /\ s.owner = Owner(a)
  BY <1>0, <1>2, <1>3, <1>4 DEF ArrayType
<1>7. Region(s)'
  BY <1>1, <1>2, <1>4, <1>5, <1>6 DEF Region, Taken
<1>8. ASSUME NEW q \in arrays PROVE q.id # s.id /\ (q.arena = s.arena => Apart(q, s))
  <2>1. q \in ArrayType /\ q.data + q.capacity - 1 <= used[q.arena]
    BY DEF IInv, Regions, Region, ArenaTypeOK
  <2>2. QED BY <1>3, <1>4, <1>6, <2>1 DEF Apart, ArrayType
<1>9. memory' \in [Arenas -> [1 .. ArenaSize -> Nat \X Nat]]
  BY <1>1 DEF IInv, ArenaTypeOK
<1>10. \A i \in 1 .. s.size : memory'[s.arena][s.data + i - 1] = Cell(s, i)
  BY <1>6
<1>11. \A q \in arrays : \A i \in 1 .. q.size :
          memory'[q.arena][q.data + i - 1] = memory[q.arena][q.data + i - 1]
  BY <1>1
<1>12. UNCHANGED frames /\ arrays \in SUBSET arrays
  BY <1>1
<1>13. QED BY <1>1, <1>5, <1>6, <1>7, <1>8, <1>9, <1>10, <1>11, <1>12, OneArrayChanges

\* What a write leaves in memory.
HoldsFrom(m, a, from, cells) ==
  \A b \in Arenas : \A i \in 1 .. ArenaSize :
    m[b][i] = IF b = a /\ i \in from .. from + Len(cells) - 1 THEN cells[i - from + 1]
              ELSE memory[b][i]

LEMMA WrittenIs ==
  ASSUME IInv, NEW a \in Arenas, NEW from \in Nat \ {0}, NEW cells \in Seq(Nat \X Nat)
  PROVE  /\ Written(a, from, cells) \in [Arenas -> [1 .. ArenaSize -> Nat \X Nat]]
         /\ HoldsFrom(Written(a, from, cells), a, from, cells)
<1>1. memory \in [Arenas -> [1 .. ArenaSize -> Nat \X Nat]]
  BY DEF IInv, ArenaTypeOK
<1> DEFINE row == [i \in 1 .. ArenaSize |-> IF i \in from .. from + Len(cells) - 1
                                             THEN cells[i - from + 1] ELSE memory[a][i]]
<1>2. Written(a, from, cells) = [memory EXCEPT ![a] = row]
  BY <1>1 DEF Written
<1>3. row \in [1 .. ArenaSize -> Nat \X Nat]
  <2>1. ASSUME NEW i \in 1 .. ArenaSize, i \in from .. from + Len(cells) - 1
        PROVE  cells[i - from + 1] \in Nat \X Nat
    <3>1. i - from + 1 \in 1 .. Len(cells)
      BY <2>1, LenProperties, ArenasAre
    <3>2. QED BY <3>1, ElementOfSeq
  <2>2. QED BY <1>1, <2>1
<1>4. \A i \in 1 .. ArenaSize : row[i] = IF i \in from .. from + Len(cells) - 1
                                          THEN cells[i - from + 1] ELSE memory[a][i]
  OBVIOUS
<1> HIDE DEF row
<1>5. Written(a, from, cells) \in [Arenas -> [1 .. ArenaSize -> Nat \X Nat]]
  BY <1>1, <1>2, <1>3
<1>6. ASSUME NEW b \in Arenas, NEW i \in 1 .. ArenaSize
      PROVE  Written(a, from, cells)[b][i] =
               IF b = a /\ i \in from .. from + Len(cells) - 1 THEN cells[i - from + 1]
               ELSE memory[b][i]
  <2>1. CASE b = a
    BY <1>1, <1>2, <1>4, <2>1
  <2>2. CASE b # a
    BY <1>1, <1>2, <2>2
  <2>3. QED BY <2>1, <2>2
<1>7. QED BY <1>5, <1>6 DEF HoldsFrom

\* The cells of an array that is in use are cells of its arena.
LEMMA PlacesInArena ==
  ASSUME IInv, NEW r \in arrays
  PROVE  /\ r \in ArrayType /\ r.arena \in Arenas /\ used[r.arena] \in Nat
         /\ used[r.arena] <= ArenaSize /\ ArenaSize \in Nat
         /\ r.size <= r.capacity /\ r.data + r.capacity - 1 <= used[r.arena]
         /\ \A i \in 1 .. r.capacity : r.data + i - 1 \in 1 .. ArenaSize
<1>1. r \in ArrayType /\ r.size <= r.capacity /\ r.data + r.capacity - 1 <= used[r.arena]
  BY DEF IInv, Regions, Region, ArenaTypeOK
<1>2. r.arena \in Arenas /\ used[r.arena] \in Nat /\ used[r.arena] <= ArenaSize
  BY <1>1, UsedIs DEF ArrayType, IInv, ArenaTypeOK
<1>3. QED BY <1>1, <1>2, ArenasAre DEF ArrayType

\* What writing one cell leaves in memory.
HoldsAt(m, a, p, c) ==
  \A b \in Arenas : \A i \in 1 .. ArenaSize :
    m[b][i] = IF b = a /\ i = p THEN c ELSE memory[b][i]

LEMMA CellWritten ==
  ASSUME IInv, NEW a \in Arenas, NEW p \in Nat \ {0}, NEW c \in Nat \X Nat
  PROVE  /\ Written(a, p, <<c>>) \in [Arenas -> [1 .. ArenaSize -> Nat \X Nat]]
         /\ HoldsAt(Written(a, p, <<c>>), a, p, c)
<1>0. PICK cells : cells = <<c>>
  OBVIOUS
<1>1. cells \in Seq(Nat \X Nat) /\ Len(cells) = 1 /\ cells[1] = c
  BY <1>0
<1>2. /\ Written(a, p, cells) \in [Arenas -> [1 .. ArenaSize -> Nat \X Nat]]
      /\ HoldsFrom(Written(a, p, cells), a, p, cells)
  BY <1>1, WrittenIs
<1>3. ASSUME NEW b \in Arenas, NEW i \in 1 .. ArenaSize
      PROVE  Written(a, p, cells)[b][i] = IF b = a /\ i = p THEN c ELSE memory[b][i]
  <2>1. Written(a, p, cells)[b][i] =
          IF b = a /\ i \in p .. p + Len(cells) - 1 THEN cells[i - p + 1] ELSE memory[b][i]
    BY <1>2 DEF HoldsFrom
  <2>2. i \in p .. p + Len(cells) - 1 <=> i = p
    BY <1>1, ArenasAre
  <2>3. i = p => cells[i - p + 1] = c
    BY <1>1
  <2> HIDE DEF Written
  <2>4. QED BY <2>1, <2>2, <2>3
<1>4. QED BY <1>0, <1>2, <1>3 DEF HoldsAt

\* A push that leaves the array where it is writes the cell after the last one.
LEMMA PushHereKeeps ==
  ASSUME IInv, NEW r \in arrays, NEW s \in ArrayType, UNCHANGED frames,
         s.id = r.id, s.arena = r.arena, s.data = r.data, s.size = r.size + 1,
         r.data + r.size <= ArenaSize,
         memory' = Written(r.arena, r.data + r.size, <<Cell(r, r.size + 1)>>),
         arrays' = (arrays \ {r}) \cup {s},
         used' \in [Arenas -> 0 .. ArenaSize], \A b \in Arenas : used[b] <= used'[b],
         Region(s)', \A q \in arrays \ {r} : q.arena = r.arena => Apart(q, s)
  PROVE  IInv'
<1>1. /\ r \in ArrayType /\ r.arena \in Arenas /\ ArenaSize \in Nat
      /\ \A i \in 1 .. r.capacity : r.data + i - 1 \in 1 .. ArenaSize
      /\ r.size <= r.capacity
  BY PlacesInArena
<1>2. /\ r.size \in Nat /\ r.data \in Nat \ {0} /\ r.capacity \in Nat \ {0} /\ r.id \in Nat
      /\ r.data + r.size \in Nat \ {0}
  BY <1>1 DEF ArrayType
<1>3. Cell(r, r.size + 1) \in Nat \X Nat
  BY <1>2 DEF Cell
<1>4. /\ memory' \in [Arenas -> [1 .. ArenaSize -> Nat \X Nat]]
      /\ HoldsAt(memory', r.arena, r.data + r.size, Cell(r, r.size + 1))
  BY <1>1, <1>2, <1>3, CellWritten
<1>5. s.size <= s.capacity /\ s.capacity \in Nat
  BY DEF Region, ArrayType
<1>6. ASSUME NEW i \in 1 .. s.size PROVE memory'[s.arena][s.data + i - 1] = Cell(s, i)
  <2>1. CASE i = r.size + 1
    <3>1. s.data + i - 1 = r.data + r.size /\ r.data + r.size \in 1 .. ArenaSize
      BY <1>1, <1>2, <2>1
    <3>2. memory'[r.arena][r.data + r.size] = Cell(r, r.size + 1)
      BY <1>1, <1>4, <3>1 DEF HoldsAt
    <3>3. QED BY <2>1, <3>1, <3>2 DEF Cell
  <2>2. CASE i # r.size + 1
    <3>1. i \in 1 .. r.size /\ i \in 1 .. r.capacity
      BY <1>1, <1>2, <2>2
    <3>2. r.data + i - 1 \in 1 .. ArenaSize /\ r.data + i - 1 # r.data + r.size
      BY <1>1, <1>2, <3>1
    <3>3. memory'[r.arena][r.data + i - 1] = memory[r.arena][r.data + i - 1]
      BY <1>1, <1>4, <3>2 DEF HoldsAt
    <3>4. memory[r.arena][r.data + i - 1] = Cell(r, i)
      BY <3>1 DEF IInv, LiveDataIntact
    <3>5. QED BY <3>3, <3>4 DEF Cell
  <2>3. QED BY <2>1, <2>2
<1>7. ASSUME NEW q \in arrays \ {r} PROVE q.id # s.id /\ (q.arena = s.arena => Apart(q, s))
  BY DEF IInv, Regions
<1>8. ASSUME NEW q \in arrays \ {r}, NEW i \in 1 .. q.size
      PROVE  memory'[q.arena][q.data + i - 1] = memory[q.arena][q.data + i - 1]
  <2>1. /\ q \in ArrayType /\ q.arena \in Arenas /\ q.size <= q.capacity
        /\ \A j \in 1 .. q.capacity : q.data + j - 1 \in 1 .. ArenaSize
    BY PlacesInArena
  <2>2. q.data \in Nat \ {0} /\ q.capacity \in Nat \ {0} /\ q.size \in Nat
    BY <2>1 DEF ArrayType
  <2>3. q.data + i - 1 \in 1 .. ArenaSize
    BY <2>1, <2>2
  <2>4. CASE q.arena = r.arena
    <3>1. Apart(q, s)
      BY <2>4
    <3>2. q.data + i - 1 # r.data + r.size
      BY <1>2, <1>5, <2>1, <2>2, <3>1 DEF Apart
    <3>3. QED BY <1>4, <2>1, <2>3, <3>2 DEF HoldsAt
  <2>5. CASE q.arena # r.arena
    BY <1>4, <2>1, <2>3, <2>5 DEF HoldsAt
  <2>6. QED BY <2>4, <2>5
<1>9. arrays \ {r} \in SUBSET arrays
  OBVIOUS
<1>10. QED BY <1>4, <1>6, <1>7, <1>8, <1>9, OneArrayChanges

\* A push within the capacity.
LEMMA PushWithinKeeps ==
  ASSUME IInv, NEW r \in arrays, UNCHANGED frames, PushWithin(r)
  PROVE  IInv'
<1>1. PICK s : s = [r EXCEPT !.size = @ + 1]
  OBVIOUS
<1>2. /\ r.size < r.capacity /\ arrays' = (arrays \ {r}) \cup {s} /\ used' = used
      /\ memory' = Written(r.arena, r.data + r.size, <<Cell(r, r.size + 1)>>)
  BY <1>1 DEF PushWithin, Replace
<1>3. /\ r \in ArrayType /\ r.arena \in Arenas /\ used[r.arena] \in Nat /\ ArenaSize \in Nat
      /\ r.data + r.capacity - 1 <= used[r.arena] /\ used[r.arena] <= ArenaSize
  BY PlacesInArena
<1>4. /\ s \in ArrayType /\ s.id = r.id /\ s.arena = r.arena /\ s.owner = r.owner
      /\ s.data = r.data /\ s.size = r.size + 1 /\ s.capacity = r.capacity
  BY <1>1, <1>3 DEF ArrayType
<1>5. /\ r.size \in Nat /\ r.data \in Nat \ {0} /\ r.capacity \in Nat \ {0}
  BY <1>3 DEF ArrayType
<1>6. r.data + r.size <= ArenaSize
  BY <1>2, <1>3, <1>5
<1>7. Region(s)'
  BY <1>2, <1>4, <1>5 DEF IInv, Regions, Region, Taken
<1>8. \A q \in arrays \ {r} : q.arena = r.arena => Apart(q, s)
  BY <1>4 DEF IInv, Regions, Apart
<1>9. used' \in [Arenas -> 0 .. ArenaSize] /\ \A b \in Arenas : used[b] <= used'[b]
  BY <1>2, UsedIs DEF IInv, ArenaTypeOK
<1>10. QED BY <1>2, <1>4, <1>6, <1>7, <1>8, <1>9, PushHereKeeps

\* The last array of its arena grows by the cell behind it.
LEMMA PushInPlaceKeeps ==
  ASSUME IInv, NEW r \in arrays, UNCHANGED frames, PushInPlace(r),
         r.arena \in Writable, r.owner = Owner(r.arena)
  PROVE  IInv'
<1>1. PICK s : s = [r EXCEPT !.size = @ + 1, !.capacity = @ + 1]
  OBVIOUS
<1>2. /\ r.size = r.capacity /\ r.data + r.capacity = used[r.arena] + 1
      /\ used[r.arena] + 1 <= ArenaSize /\ used' = [used EXCEPT ![r.arena] = @ + 1]
      /\ arrays' = (arrays \ {r}) \cup {s}
      /\ memory' = Written(r.arena, r.data + r.size, <<Cell(r, r.size + 1)>>)
  BY <1>1 DEF PushInPlace, Replace, IsLast, Fits
<1>3. /\ r \in ArrayType /\ r.arena \in Arenas /\ used[r.arena] \in Nat /\ ArenaSize \in Nat
      /\ used \in [Arenas -> 0 .. ArenaSize]
  BY PlacesInArena DEF IInv, ArenaTypeOK
<1>4. /\ s \in ArrayType /\ s.id = r.id /\ s.arena = r.arena /\ s.owner = r.owner
      /\ s.data = r.data /\ s.size = r.size + 1 /\ s.capacity = r.capacity + 1
  <2>1. /\ s.id = r.id /\ s.arena = r.arena /\ s.owner = r.owner
        /\ s.data = r.data /\ s.size = r.size + 1 /\ s.capacity = r.capacity + 1
    BY <1>1, <1>3 DEF ArrayType
  <2>2. s = [id |-> r.id, arena |-> r.arena, owner |-> r.owner, data |-> r.data,
             size |-> r.size + 1, capacity |-> r.capacity + 1]
    BY <1>1, <1>3 DEF ArrayType
  <2>3. r.size + 1 \in Nat /\ r.capacity + 1 \in Nat \ {0}
    BY <1>3 DEF ArrayType
  <2>4. QED BY <1>3, <2>1, <2>2, <2>3 DEF ArrayType
<1>5. /\ r.size \in Nat /\ r.data \in Nat \ {0} /\ r.capacity \in Nat \ {0}
  BY <1>3 DEF ArrayType
<1>6. r.data + r.size <= ArenaSize
  BY <1>2, <1>3, <1>5
<1>7. /\ used' \in [Arenas -> 0 .. ArenaSize] /\ \A b \in Arenas : used[b] <= used'[b]
      /\ used'[r.arena] = used[r.arena] + 1
  BY <1>2, <1>3, UsedIs
<1>8. Region(s)'
  <2>1. \A f \in DOMAIN frames : f > r.owner => frames[f].temp # r.arena
    BY OwnerIs
  <2>2. r.owner \in DOMAIN frames /\ r.arena \in Taken(r.owner)
    BY DEF IInv, Regions, Region
  <2>3. s.size <= s.capacity /\ s.data + s.capacity - 1 <= used'[s.arena]
    BY <1>2, <1>3, <1>4, <1>5, <1>7
  <2>4. QED BY <1>4, <2>1, <2>2, <2>3 DEF Region, Taken
<1>9. ASSUME NEW q \in arrays \ {r}, q.arena = r.arena PROVE Apart(q, s)
  <2>1. Apart(q, r)
    BY <1>9 DEF IInv, Regions
  <2>2. q \in ArrayType /\ q.data + q.capacity - 1 <= used[q.arena]
    BY PlacesInArena
  <2>3. q.data \in Nat \ {0} /\ q.capacity \in Nat \ {0}
    BY <2>2 DEF ArrayType
  <2>4. QED BY <1>2, <1>3, <1>4, <1>5, <1>9, <2>1, <2>2, <2>3 DEF Apart
<1>10. QED BY <1>2, <1>4, <1>6, <1>7, <1>8, <1>9, PushHereKeeps

\* An array that is not last moves behind what is used, with all it stored.
LEMMA PushMovingKeeps ==
  ASSUME IInv, NEW r \in arrays, UNCHANGED frames, PushMoving(r),
         r.arena \in Writable, r.owner = Owner(r.arena)
  PROVE  IInv'
<1>0. PICK s : s = [r EXCEPT !.data = used[r.arena] + 1, !.size = @ + 1, !.capacity = 2 * @]
  OBVIOUS
<1>1. PICK cells : cells = Append(Stored(r), Cell(r, r.size + 1))
  OBVIOUS
<1>2. /\ r.size = r.capacity /\ used[r.arena] + 2 * r.capacity <= ArenaSize
      /\ used' = [used EXCEPT ![r.arena] = @ + 2 * r.capacity]
      /\ arrays' = (arrays \ {r}) \cup {s}
      /\ memory' = Written(r.arena, used[r.arena] + 1, cells)
  BY <1>0, <1>1 DEF PushMoving, Replace, Fits
<1>3. /\ r \in ArrayType /\ r.arena \in Arenas /\ used[r.arena] \in Nat /\ ArenaSize \in Nat
      /\ used \in [Arenas -> 0 .. ArenaSize]
      /\ \A i \in 1 .. r.capacity : r.data + i - 1 \in 1 .. ArenaSize
  BY PlacesInArena DEF IInv, ArenaTypeOK
<1>4. /\ r.size \in Nat /\ r.data \in Nat \ {0} /\ r.capacity \in Nat \ {0} /\ r.id \in Nat
  BY <1>3 DEF ArrayType
<1>5. /\ s \in ArrayType /\ s.id = r.id /\ s.arena = r.arena /\ s.owner = r.owner
      /\ s.data = used[r.arena] + 1 /\ s.size = r.size + 1 /\ s.capacity = 2 * r.capacity
  <2>1. /\ s.id = r.id /\ s.arena = r.arena /\ s.owner = r.owner
        /\ s.data = used[r.arena] + 1 /\ s.size = r.size + 1 /\ s.capacity = 2 * r.capacity
    BY <1>0, <1>3 DEF ArrayType
  <2>2. s = [id |-> r.id, arena |-> r.arena, owner |-> r.owner, data |-> used[r.arena] + 1,
             size |-> r.size + 1, capacity |-> 2 * r.capacity]
    BY <1>0, <1>3 DEF ArrayType
  <2>3. used[r.arena] + 1 \in Nat \ {0} /\ r.size + 1 \in Nat /\ 2 * r.capacity \in Nat \ {0}
    BY <1>3, <1>4
  <2>4. QED BY <1>3, <2>1, <2>2, <2>3 DEF ArrayType
<1>6. /\ cells \in Seq(Nat \X Nat) /\ Len(cells) = r.size + 1
      /\ \A i \in 1 .. r.size + 1 : cells[i] = Cell(r, i)
  <2>1. \A i \in 1 .. r.size : memory[r.arena][r.data + i - 1] = Cell(r, i)
    BY DEF IInv, LiveDataIntact
  <2>2. Stored(r) = [i \in 1 .. r.size |-> Cell(r, i)]
    BY <2>1 DEF Stored
  <2>3. \A i \in 1 .. r.size + 1 : Cell(r, i) \in Nat \X Nat
    BY <1>4 DEF Cell
  <2>4. /\ Stored(r) \in Seq(Nat \X Nat) /\ Len(Stored(r)) = r.size
        /\ \A i \in 1 .. r.size : Stored(r)[i] = Cell(r, i)
    <3>1. PICK cs : cs = Stored(r)
      OBVIOUS
    <3>2. cs = [i \in 1 .. r.size |-> Cell(r, i)]
      BY <2>2, <3>1
    <3>3. \A i \in 1 .. r.size : cs[i] = Cell(r, i) /\ cs[i] \in Nat \X Nat
      BY <1>4, <2>3, <3>2
    <3>4. cs \in [1 .. r.size -> Nat \X Nat]
      BY <3>2, <3>3
    <3>5. cs \in Seq(Nat \X Nat) /\ Len(cs) = r.size
      BY <1>4, <3>4, SeqDef, LenProperties
    <3>6. QED BY <3>1, <3>3, <3>5
  <2>5. Cell(r, r.size + 1) \in Nat \X Nat
    BY <1>4, <2>3
  <2>6. QED BY <1>1, <1>4, <2>4, <2>5
<1>7. /\ memory' \in [Arenas -> [1 .. ArenaSize -> Nat \X Nat]]
      /\ HoldsFrom(memory', r.arena, used[r.arena] + 1, cells)
  <2>1. used[r.arena] + 1 \in Nat \ {0}
    BY <1>3
  <2>2. QED BY <1>2, <1>3, <1>6, <2>1, WrittenIs
<1>8. /\ used' \in [Arenas -> 0 .. ArenaSize] /\ \A b \in Arenas : used[b] <= used'[b]
      /\ used'[r.arena] = used[r.arena] + 2 * r.capacity
  <2>1. used'[r.arena] = used[r.arena] + 2 * r.capacity
    BY <1>2, <1>3
  <2>2. used[r.arena] + 2 * r.capacity \in 0 .. ArenaSize
    BY <1>2, <1>3, <1>4
  <2>3. used' \in [Arenas -> 0 .. ArenaSize]
    BY <1>2, <1>3, <2>2
  <2>4. ASSUME NEW b \in Arenas PROVE used[b] <= used'[b]
    <3>1. CASE b = r.arena
      BY <1>3, <1>4, <2>1, <3>1
    <3>2. CASE b # r.arena
      BY <1>2, <1>3, <3>2, UsedIs
    <3>3. QED BY <3>1, <3>2
  <2>5. QED BY <2>1, <2>3, <2>4
<1>9. Region(s)'
  <2>1. \A f \in DOMAIN frames : f > r.owner => frames[f].temp # r.arena
    BY OwnerIs
  <2>2. r.owner \in DOMAIN frames /\ r.arena \in Taken(r.owner)
    BY DEF IInv, Regions, Region
  <2>3. s.size <= s.capacity /\ s.data + s.capacity - 1 <= used'[s.arena]
    BY <1>2, <1>3, <1>4, <1>5, <1>8
  <2>4. QED BY <1>5, <2>1, <2>2, <2>3 DEF Region, Taken
<1>10. ASSUME NEW i \in 1 .. s.size PROVE memory'[s.arena][s.data + i - 1] = Cell(s, i)
  <2>1. PICK p : p = s.data + i - 1
    OBVIOUS
  <2>2. i \in 1 .. r.size + 1 /\ i \in Nat /\ p = used[r.arena] + i
    BY <1>3, <1>4, <1>5, <2>1
  <2>3. i <= 2 * r.capacity
    BY <1>2, <1>4, <2>2
  <2>4. p \in 1 .. ArenaSize
    BY <1>2, <1>3, <1>4, <2>2, <2>3
  <2>5. p \in used[r.arena] + 1 .. used[r.arena] + 1 + Len(cells) - 1
    <3>1. PICK n : n = Len(cells) /\ n = r.size + 1
      BY <1>6
    <3>2. p \in used[r.arena] + 1 .. used[r.arena] + 1 + n - 1
      <4>1. PICK u : u = used[r.arena] /\ u \in Nat
        BY <1>3
      <4>2. n \in Nat /\ i \in 1 .. n /\ p = u + i
        BY <1>4, <2>2, <3>1, <4>1
      <4>3. QED BY <4>1, <4>2
    <3>3. QED BY <3>1, <3>2
  <2>6. memory'[r.arena][p] = cells[p - (used[r.arena] + 1) + 1]
    BY <1>3, <1>7, <2>4, <2>5 DEF HoldsFrom
  <2>7. p - (used[r.arena] + 1) + 1 = i
    BY <1>3, <2>2
  <2>8. memory'[r.arena][p] = Cell(r, i)
    BY <1>6, <2>2, <2>6, <2>7
  <2>9. QED BY <1>5, <2>1, <2>8 DEF Cell
<1>11. ASSUME NEW q \in arrays \ {r}
       PROVE  /\ q.id # s.id /\ (q.arena = s.arena => Apart(q, s))
              /\ \A i \in 1 .. q.size :
                    memory'[q.arena][q.data + i - 1] = memory[q.arena][q.data + i - 1]
  <2>1. q.id # r.id
    BY DEF IInv, Regions
  <2>2. /\ q \in ArrayType /\ q.arena \in Arenas /\ q.size <= q.capacity
        /\ q.data + q.capacity - 1 <= used[q.arena]
        /\ \A i \in 1 .. q.capacity : q.data + i - 1 \in 1 .. ArenaSize
    BY PlacesInArena
  <2>3. q.data \in Nat \ {0} /\ q.capacity \in Nat \ {0} /\ q.size \in Nat
    BY <2>2 DEF ArrayType
  <2>4. q.arena = s.arena => Apart(q, s)
    BY <1>3, <1>5, <2>2, <2>3 DEF Apart
  <2>5. ASSUME NEW i \in 1 .. q.size
        PROVE  memory'[q.arena][q.data + i - 1] = memory[q.arena][q.data + i - 1]
    <3>1. q.data + i - 1 \in 1 .. ArenaSize
      BY <2>2, <2>3
    <3>2. CASE q.arena = r.arena
      <4>1. ~(q.data + i - 1 \in used[r.arena] + 1 .. used[r.arena] + 1 + Len(cells) - 1)
        <5>1. q.data + i - 1 <= used[r.arena] /\ i \in Nat
          BY <1>3, <2>2, <2>3, <3>2
        <5>2. QED BY <1>3, <1>4, <1>6, <2>3, <5>1
      <4>2. QED BY <1>7, <2>2, <3>1, <4>1 DEF HoldsFrom
    <3>3. CASE q.arena # r.arena
      BY <1>7, <2>2, <3>1, <3>3 DEF HoldsFrom
    <3>4. QED BY <3>2, <3>3
  <2>6. QED BY <1>5, <2>1, <2>4, <2>5
<1>12. arrays \ {r} \in SUBSET arrays
  OBVIOUS
<1>13. QED BY <1>2, <1>5, <1>7, <1>8, <1>9, <1>10, <1>11, <1>12, OneArrayChanges

-----------------------------------------------------------------------------
LEMMA Inductive == IInv /\ [ArenaNext]_arenaVars => IInv'
<1> SUFFICES ASSUME IInv, [ArenaNext]_arenaVars PROVE IInv'
  OBVIOUS
<1>1. ASSUME NEW diff \in Arenas \cup {NoArena}, NEW diff2 \in Arenas \cup {NoArena},
             Call(diff, diff2)
      PROVE  IInv'
  BY <1>1, CallKeeps
<1>2. CASE GetSingleUseArena
  BY <1>2, SingleUseKeeps
<1>3. CASE Return
  BY <1>3, ReturnKeeps
<1>4. ASSUME NEW arena \in Writable, StartGrowableArray(arena) PROVE IInv'
  BY <1>4, StartArrayKeeps
<1>5. ASSUME NEW r \in arrays, PushElem(r) PROVE IInv'
  <2>1. UNCHANGED frames /\ r.arena \in Writable /\ r.owner = Owner(r.arena)
    BY <1>5 DEF PushElem
  <2>2. CASE PushWithin(r)
    BY <2>1, <2>2, PushWithinKeeps
  <2>3. CASE PushInPlace(r)
    BY <2>1, <2>3, PushInPlaceKeeps
  <2>4. CASE PushMoving(r)
    BY <2>1, <2>4, PushMovingKeeps
  <2>5. QED BY <1>5, <2>2, <2>3, <2>4 DEF PushElem
<1>6. CASE UNCHANGED arenaVars
  BY <1>6 DEF arenaVars, IInv, ArenaTypeOK, Discipline, Marks, Regions, Region, Apart, Taken,
              LiveDataIntact, Cell
<1>7. QED BY <1>1, <1>2, <1>3, <1>4, <1>5, <1>6 DEF ArenaNext

\* The discipline of the arenas (memory.hpp:232, memory.cpp:131): a function takes
\* its temporary data from an arena no result goes to, and what outlives it lies
\* before its mark or in another arena.
THEOREM AlwaysIInv == ArenaSpec => []IInv
<1>1. ArenaInit => IInv
  BY Start
<1>2. IInv /\ [ArenaNext]_arenaVars => IInv'
  BY Inductive
<1>3. QED BY <1>1, <1>2, PTL DEF ArenaSpec

\* What a function was given or left with stays as it was written until the
\* function that owns its region returns (memory.cpp:131, :305, memory.hpp:232).
THEOREM DataStaysIntact == ArenaSpec => []LiveDataIntact
<1>1. IInv => LiveDataIntact
  BY DEF IInv
<1>2. QED BY <1>1, AlwaysIInv, PTL

-----------------------------------------------------------------------------
(* The search for the largest clique.                                       *)

\* The mappings a call may add, how many they are, and the cliques it may find.
Candidates(call) == {j \in Bits : call.valid[j]}
Open(call) == {S \in Cliques : call.record \subseteq S /\ S \subseteq call.record \cup Candidates(call)}

GraphOK ==
  /\ size \in Nat
  /\ \A i \in Bits : {i} \notin edges
  /\ patience \in Nat
  /\ upperBound \in Nat \ {0}

\* Sets of mappings are counted.
LEMMA MappingsAreCounted ==
  ASSUME GraphOK
  PROVE  /\ \A S \in SUBSET Bits : IsFiniteSet(S) /\ Cardinality(S) \in Nat
         /\ \A S, R \in SUBSET Bits : R \subseteq S => Cardinality(R) <= Cardinality(S)
         /\ \A S \in SUBSET Bits : Cardinality(S) = 0 <=> S = {}
         /\ \A S \in SUBSET Bits : \A i \in Bits \ S : Cardinality(S \cup {i}) = Cardinality(S) + 1
         /\ \A S \in SUBSET Bits : \A i \in S : Cardinality(S \ {i}) = Cardinality(S) - 1
<1>1. IsFiniteSet(Bits)
  BY FS_Interval DEF Bits, GraphOK
<1>2. \A S \in SUBSET Bits : IsFiniteSet(S) /\ Cardinality(S) \in Nat
  BY <1>1, FS_Subset, FS_CardinalityType
<1>3. ASSUME NEW S \in SUBSET Bits, NEW R \in SUBSET Bits, R \subseteq S
      PROVE  Cardinality(R) <= Cardinality(S)
  <2>1. IsFiniteSet(S) /\ R \in SUBSET S
    BY <1>2, <1>3
  <2>2. QED BY <2>1, FS_Subset
<1>4. \A S \in SUBSET Bits : Cardinality(S) = 0 <=> S = {}
  BY <1>2, FS_EmptySet
<1>5. ASSUME NEW S \in SUBSET Bits, NEW i \in Bits \ S
      PROVE  Cardinality(S \cup {i}) = Cardinality(S) + 1
  <2>1. IsFiniteSet(S)
    BY <1>2
  <2>2. QED BY <2>1, <1>5, FS_AddElement
<1>6. ASSUME NEW S \in SUBSET Bits, NEW i \in S
      PROVE  Cardinality(S \ {i}) = Cardinality(S) - 1
  <2>1. IsFiniteSet(S)
    BY <1>2
  <2>2. QED BY <2>1, <1>6, FS_RemoveElement
<1>7. QED BY <1>2, <1>3, <1>4, <1>5, <1>6

\* The first candidate.
LEMMA FirstIs ==
  ASSUME GraphOK, NEW valid \in [Bits -> BOOLEAN], NEW start \in Bits
  PROVE  /\ FirstBitSetIndex(valid, start) \in Bits
         /\ (\E j \in Bits : j >= start /\ valid[j]) =>
              /\ valid[FirstBitSetIndex(valid, start)]
              /\ FirstBitSetIndex(valid, start) >= start
              /\ \A j \in Bits : j >= start /\ valid[j] => j >= FirstBitSetIndex(valid, start)
<1>1. PICK found : found = {i \in DOMAIN valid : i >= start /\ valid[i]}
  OBVIOUS
<1>2. found = {i \in Bits : i >= start /\ valid[i]} /\ found \in SUBSET Nat
  BY <1>1 DEF Bits
<1>3. FirstBitSetIndex(valid, start) = IF found = {} THEN 0 ELSE Min(found)
  BY <1>1 DEF FirstBitSetIndex
<1>4. CASE found = {}
  <2>1. 0 \in Bits
    BY DEF Bits, GraphOK
  <2>2. QED BY <1>2, <1>3, <1>4, <2>1
<1>5. CASE found # {}
  <2>1. Min(found) \in found /\ \A y \in found : Min(found) <= y
    BY <1>2, <1>5, MinIs
  <2>2. FirstBitSetIndex(valid, start) = Min(found)
    BY <1>3, <1>5
  <2>3. PICK m \in found : m = FirstBitSetIndex(valid, start) /\ \A y \in found : m <= y
    BY <2>1, <2>2
  <2>4. \A j \in Bits : j >= start /\ valid[j] => j \in found
    BY <1>2
  <2>5. \A j \in Bits : j \in Nat
    BY DEF Bits
  <2>6. QED BY <1>2, <2>3, <2>4, <2>5
<1>6. QED BY <1>4, <1>5

\* What a call leads to is a state of the search.
LEMMA CliqueType ==
  ASSUME GraphOK, NEW scan \in [Calls -> States], NEW call \in Calls
  PROVE  Clique(scan, call) \in States
<1>1. PICK s \in States : s = call.state
  BY DEF Calls
<1>2. PICK c : c = [s EXCEPT !.iterations = @ + 1]
  OBVIOUS
<1>3. c \in States
  BY <1>2 DEF States
<1>4. Found(c, call.record) \in States
  <2>1. call.record \in SUBSET Bits
    BY DEF Calls
  <2>2. Cardinality(call.record) \in Nat
    BY <2>1, MappingsAreCounted
  <2>3. [i \in Bits |-> i \in call.record] \in [Bits -> BOOLEAN]
    OBVIOUS
  <2>4. PICK n \in Nat : n = Cardinality(call.record)
    BY <2>2
  <2>5. PICK q \in [Bits -> BOOLEAN] : q = [i \in Bits |-> i \in call.record]
    BY <2>3
  <2>6. [c EXCEPT !.max = n, !.found = TRUE, !.clique = q] \in States
    BY <1>3 DEF States
  <2>7. QED BY <1>3, <2>4, <2>5, <2>6 DEF Found
<1>5. [c EXCEPT !.found = TRUE] \in States
  BY <1>3 DEF States
<1>6. scan[[call EXCEPT !.state = c]] \in States
  <2>1. [call EXCEPT !.state = c] \in Calls
    BY <1>3 DEF Calls
  <2>2. QED BY <2>1
<1>7. QED BY <1>1, <1>2, <1>4, <1>5, <1>6 DEF Clique

\* The two calls a candidate leads to.
With(loop, i) ==
  [state |-> loop.state, valid |-> AndWith(Set(loop.valid, i, FALSE), Neighbors[i]),
   index |-> i, record |-> loop.record \cup {i}]
Without(loop, i, tried) ==
  [state |-> tried, valid |-> Set(loop.valid, i, FALSE), index |-> i, record |-> loop.record]

LEMMA CallsMade ==
  ASSUME GraphOK, NEW loop \in Calls, NEW i \in Bits, NEW tried \in States
  PROVE  /\ With(loop, i) \in Calls
         /\ Without(loop, i, tried) \in Calls
         /\ Candidates(With(loop, i)) = {j \in Candidates(loop) : j # i /\ {i, j} \in edges}
         /\ Candidates(Without(loop, i, tried)) = Candidates(loop) \ {i}
<1>1. PICK v \in [Bits -> BOOLEAN] : v = loop.valid
  BY DEF Calls
<1>2. loop.state \in States /\ loop.record \in SUBSET Bits
  BY DEF Calls
<1>3. PICK rest : rest = Set(loop.valid, i, FALSE)
  OBVIOUS
<1>4. rest \in [Bits -> BOOLEAN] /\ \A j \in Bits : rest[j] <=> j # i /\ v[j]
  BY <1>1, <1>3 DEF Set
<1>5. PICK both : both = AndWith(rest, Neighbors[i])
  OBVIOUS
<1>6. both \in [Bits -> BOOLEAN] /\ \A j \in Bits : both[j] <=> rest[j] /\ {i, j} \in edges
  <2>1. Neighbors[i] = [j \in Bits |-> {i, j} \in edges]
    BY DEF Neighbors
  <2>2. DOMAIN rest = Bits
    BY <1>4
  <2>3. both = [j \in Bits |-> rest[j] /\ Neighbors[i][j]]
    BY <1>5, <2>2 DEF AndWith
  <2>4. both = [j \in Bits |-> rest[j] /\ {i, j} \in edges]
    BY <2>1, <2>3
  <2>5. \A j \in Bits : both[j] = (rest[j] /\ {i, j} \in edges)
    BY <2>4
  <2>6. QED BY <2>4, <2>5
<1>7. With(loop, i) = [state |-> loop.state, valid |-> both, index |-> i, record |-> loop.record \cup {i}]
  BY <1>3, <1>5 DEF With
<1>8. Without(loop, i, tried) = [state |-> tried, valid |-> rest, index |-> i, record |-> loop.record]
  BY <1>3 DEF Without
<1>9. With(loop, i) \in Calls /\ Without(loop, i, tried) \in Calls
  <2>1. loop.record \cup {i} \in SUBSET Bits
    BY <1>2
  <2>2. QED BY <1>2, <1>4, <1>6, <1>7, <1>8, <2>1 DEF Calls
<1>10. Candidates(With(loop, i)) = {j \in Candidates(loop) : j # i /\ {i, j} \in edges}
  BY <1>1, <1>4, <1>6, <1>7 DEF Candidates
<1>11. Candidates(Without(loop, i, tried)) = Candidates(loop) \ {i}
  BY <1>1, <1>4, <1>8 DEF Candidates
<1>12. QED BY <1>9, <1>10, <1>11

\* The loop ends before it tries candidate i.
Ends(loop, i) ==
  \/ GetNumberBitsSet(loop.valid) = 0
  \/ TooFew(loop)
  \/ Cardinality(loop.record) + loop.state.table[i] <= loop.state.max

First(loop) == FirstBitSetIndex(loop.valid, loop.index)

LEMMA CandidateIs ==
  ASSUME GraphOK, NEW scan \in [Calls -> States], NEW loop \in Calls
  PROVE  /\ First(loop) \in Bits
         /\ Candidate(scan, loop) \in States
         /\ Ends(loop, First(loop)) => Candidate(scan, loop) = loop.state
         /\ ~Ends(loop, First(loop)) =>
              LET tried == Clique(scan, With(loop, First(loop)))
              IN  /\ tried.found => Candidate(scan, loop) = tried
                  /\ ~tried.found =>
                       Candidate(scan, loop) = scan[Without(loop, First(loop), tried)]
<1>1. PICK i : i = First(loop)
  OBVIOUS
<1>2. i \in Bits
  <2>1. loop.valid \in [Bits -> BOOLEAN] /\ loop.index \in Bits
    BY DEF Calls
  <2>2. QED BY <1>1, <2>1, FirstIs DEF First
<1>3. PICK tried : tried = Clique(scan, With(loop, i))
  OBVIOUS
<1>4. tried \in States
  <2>1. PICK w \in Calls : w = With(loop, i)
    <3>1. loop.state \in States
      BY DEF Calls
    <3>2. QED BY <1>2, <3>1, CallsMade
  <2>2. Clique(scan, w) \in States
    BY CliqueType
  <2>3. QED BY <1>3, <2>1, <2>2
<1>5. scan[Without(loop, i, tried)] \in States
  <2>1. PICK w \in Calls : w = Without(loop, i, tried)
    BY <1>2, <1>4, CallsMade
  <2>2. QED BY <2>1
<1>6. Candidate(scan, loop) =
        IF Ends(loop, i) THEN loop.state
        ELSE IF tried.found THEN tried ELSE scan[Without(loop, i, tried)]
  BY <1>1, <1>3 DEF Candidate, Ends, With, Without, First
<1>7. loop.state \in States
  BY DEF Calls
<1>8. QED BY <1>1, <1>2, <1>3, <1>4, <1>5, <1>6, <1>7

\* The recursive definition of the loop has a solution.
LEMMA ScanIs ==
  ASSUME GraphOK
  PROVE  /\ Scan \in [0 .. size -> [Calls -> States]]
         /\ \A loop \in Calls : Scan[0][loop] = loop.state
         /\ \A n \in 1 .. size : \A loop \in Calls : Scan[n][loop] = Candidate(Scan[n - 1], loop)
<1> DEFINE S == [Calls -> States]
<1> DEFINE Loop(sc) == [num \in 0 .. size |->
              [loop \in Calls |-> IF num = 0 THEN loop.state ELSE Candidate(sc[num - 1], loop)]]
<1>1. PICK e : e = [loop \in Calls |-> loop.state]
  OBVIOUS
<1>2. e \in S
  <2>1. \A loop \in Calls : loop.state \in States
    BY DEF Calls
  <2>2. QED BY <1>1, <2>1
<1>3. PICK step : step = [k \in 1 .. size |-> [sc \in S |-> [loop \in Calls |-> Candidate(sc, loop)]]]
  OBVIOUS
<1>4. ASSUME NEW sc \in S PROVE [loop \in Calls |-> Candidate(sc, loop)] \in S
  <2>1. \A loop \in Calls : Candidate(sc, loop) \in States
    BY CandidateIs
  <2>2. QED BY <2>1
<1>5. step \in [1 .. size -> [S -> S]]
  <2> HIDE DEF S
  <2>1. QED BY <1>3, <1>4
<1>6. PICK f \in [1 .. size + 1 -> S] :
        f[size + 1] = e /\ \A k \in 1 .. size : f[k] = step[k][f[k + 1]]
  <2> HIDE DEF S
  <2>1. size \in Nat
    BY DEF GraphOK
  <2>2. Definable(size, S, e, step)
    BY <1>2, <1>5, <2>1, Downwards, Zenon
  <2>3. QED BY <2>2 DEF Definable
<1>7. PICK h : h = [n \in 0 .. size |-> f[size + 1 - n]]
  OBVIOUS
<1>8. h \in [0 .. size -> S] /\ h[0] = e
  <2> HIDE DEF S
  <2>1. \A n \in 0 .. size : size + 1 - n \in 1 .. size + 1
    BY DEF GraphOK
  <2>2. 0 \in 0 .. size /\ size + 1 - 0 = size + 1
    BY DEF GraphOK
  <2>3. QED BY <1>6, <1>7, <2>1, <2>2
<1>9. ASSUME NEW n \in 1 .. size
      PROVE  h[n - 1] \in S /\ h[n] = [loop \in Calls |-> Candidate(h[n - 1], loop)]
  <2> HIDE DEF S
  <2>1. PICK k \in 1 .. size : k = size + 1 - n
    BY DEF GraphOK
  <2>2. size + 1 - (n - 1) = k + 1 /\ n - 1 \in 0 .. size /\ n \in 0 .. size
    BY <2>1 DEF GraphOK
  <2>3. h[n - 1] = f[k + 1] /\ h[n] = f[k] /\ h[n - 1] \in S
    BY <1>7, <1>8, <2>1, <2>2
  <2>4. f[k] = step[k][f[k + 1]]
    BY <1>6
  <2>5. QED BY <1>3, <2>3, <2>4
<1>10. h = Loop(h)
  <2>1. ASSUME NEW n \in 0 .. size
        PROVE  h[n] = [loop \in Calls |-> IF n = 0 THEN loop.state ELSE Candidate(h[n - 1], loop)]
    <3>1. CASE n = 0
      BY <1>1, <1>8, <3>1
    <3>2. CASE n # 0
      <4>1. n \in 1 .. size
        BY <3>2
      <4>2. QED BY <1>9, <3>2, <4>1
    <3>3. QED BY <3>1, <3>2
  <2>2. h = [n \in 0 .. size |-> h[n]]
    BY <1>8
  <2>3. QED BY <2>1, <2>2
<1>11. Scan = Loop(Scan)
  <2>1. Scan = CHOOSE sc : sc = Loop(sc)
    BY DEF Scan
  <2> HIDE DEF Loop
  <2>2. QED BY <1>10, <2>1
<1>12. \A n \in 0 .. size : Scan[n] =
         [loop \in Calls |-> IF n = 0 THEN loop.state ELSE Candidate(Scan[n - 1], loop)]
  BY <1>11
<1>13. 0 \in 0 .. size
  BY DEF GraphOK
<1>14. Scan[0] = e
  BY <1>1, <1>12, <1>13
<1>15. ASSUME NEW n \in 1 .. size PROVE Scan[n] = [loop \in Calls |-> Candidate(Scan[n - 1], loop)]
  <2>1. n \in 0 .. size /\ n # 0
    OBVIOUS
  <2>2. QED BY <1>12, <2>1
<1>16. Scan = [n \in 0 .. size |-> Scan[n]]
  BY <1>11
<1>17. \A n \in 0 .. size : Scan[n] \in S
  <2> HIDE DEF S
  <2>1. PICK G : G = {n \in 0 .. size : Scan[n] \notin S}
    OBVIOUS
  <2>2. SUFFICES ASSUME G # {} PROVE FALSE
    BY <2>1
  <2>3. G \subseteq Nat
    BY <2>1
  <2>4. PICK n \in G : \A c \in G : ~(<<c, n>> \in OpToRel(<, Nat))
    BY <2>2, <2>3, WFMin, NatLessThanWellFounded
  <2>5. n \in 0 .. size /\ Scan[n] \notin S
    BY <2>1
  <2>6. n # 0
    BY <1>2, <1>14, <2>5
  <2>7. n \in 1 .. size /\ n - 1 \in 0 .. size /\ n - 1 < n
    BY <2>5, <2>6 DEF GraphOK
  <2>8. n - 1 \notin G
    <3>1. n - 1 \in G => <<n - 1, n>> \in OpToRel(<, Nat)
      BY <2>3, <2>7 DEF OpToRel
    <3>2. QED BY <2>4, <3>1
  <2>9. Scan[n - 1] \in S
    BY <2>1, <2>7, <2>8
  <2>10. QED BY <1>4, <1>15, <2>5, <2>7, <2>9
<1>18. Scan \in [0 .. size -> S]
  <2> HIDE DEF S
  <2>1. QED BY <1>16, <1>17
<1>19. QED BY <1>1, <1>14, <1>15, <1>18

-----------------------------------------------------------------------------
(* A call in the turn of mapping a.  No clique of later mappings is larger  *)
(* than the best one, or than the table says.                               *)

Later(a) == {S \in Cliques : \A i \in S : i > a}
Known(a, state) ==
  /\ \A S \in Later(a) : Cardinality(S) <= state.max
  /\ \A j \in Bits : j > a => \A S \in Later(j - 1) : Cardinality(S) <= state.table[j]

\* The mappings taken agree, and with all that may be added.
Agree(a, call) ==
  /\ a \in call.record
  /\ call.record \in Cliques
  /\ \A i \in call.record : i >= a
  /\ \A j \in Candidates(call) : j > a /\ j >= call.index
  /\ \A j \in Candidates(call) : \A i \in call.record : {i, j} \in edges

InTurn(a, call) == call \in Calls /\ ~call.state.found /\ Agree(a, call) /\ Known(a, call.state)

NoBetter(call) == \A S \in Open(call) : Cardinality(S) <= call.state.max

Same(state, result) ==
  /\ result.at = state.at /\ result.over = state.over /\ result.table = state.table
  /\ result.iterations >= state.iterations

SameBest(state, result) == result.max = state.max /\ result.clique = state.clique

IsBest(state) == IsClique(state.clique) /\ GetNumberBitsSet(state.clique) = state.max

\* What a call leads to: no better clique, one better by one, or no time left.
Fails(call, result) == ~result.found /\ SameBest(call.state, result) /\ NoBetter(call)
Succeeds(call, result) == result.found /\ result.max = call.state.max + 1 /\ IsBest(result)
RunsOut(call, result) ==
  /\ result.found /\ result.iterations > patience
  /\ SameBest(call.state, result)
  /\ Candidates(call) # {}

Right(call, result) ==
  /\ result \in States /\ Same(call.state, result)
  /\ Fails(call, result) \/ Succeeds(call, result) \/ RunsOut(call, result)

LEMMA CallIs ==
  ASSUME GraphOK, NEW call \in Calls
  PROVE  /\ call.state \in States /\ call.record \in SUBSET Bits /\ call.index \in Bits
         /\ call.valid \in [Bits -> BOOLEAN] /\ Candidates(call) \in SUBSET Bits
         /\ GetNumberBitsSet(call.valid) = Cardinality(Candidates(call))
         /\ Cardinality(call.record) \in Nat /\ Cardinality(Candidates(call)) \in Nat
         /\ Cardinality(Candidates(call)) = 0 <=> Candidates(call) = {}
         /\ call.state.max \in Nat /\ call.state.iterations \in Nat
         /\ call.state.table \in [Bits -> Nat] /\ call.state.found \in BOOLEAN
<1>1. /\ call.state \in States /\ call.record \in SUBSET Bits /\ call.index \in Bits
      /\ call.valid \in [Bits -> BOOLEAN]
  BY DEF Calls
<1>2. Candidates(call) \in SUBSET Bits
  BY DEF Candidates
<1>3. GetNumberBitsSet(call.valid) = Cardinality(Candidates(call))
  <2>1. DOMAIN call.valid = Bits
    BY <1>1
  <2>2. QED BY <2>1 DEF GetNumberBitsSet, Candidates
<1>4. Cardinality(call.record) \in Nat /\ Cardinality(Candidates(call)) \in Nat
  BY <1>1, <1>2, MappingsAreCounted
<1>5. Cardinality(Candidates(call)) = 0 <=> Candidates(call) = {}
  BY <1>2, MappingsAreCounted
<1>6. /\ call.state.max \in Nat /\ call.state.iterations \in Nat
      /\ call.state.table \in [Bits -> Nat] /\ call.state.found \in BOOLEAN
  BY <1>1 DEF States
<1>7. QED BY <1>1, <1>2, <1>3, <1>4, <1>5, <1>6

\* Fields of what Clique goes on with.
LEMMA CountedIs ==
  ASSUME NEW s \in States
  PROVE  LET c == [s EXCEPT !.iterations = @ + 1]
         IN  /\ c \in States /\ c.iterations = s.iterations + 1
             /\ c.at = s.at /\ c.over = s.over /\ c.table = s.table /\ c.found = s.found
             /\ c.max = s.max /\ c.clique = s.clique
BY DEF States

\* What is left of a clique is one.
LEMMA PartOfClique ==
  ASSUME NEW S \in Cliques, NEW T \in SUBSET S
  PROVE  T \in Cliques
BY DEF Cliques

\* A clique that is open is what was taken and candidates that agree.
LEMMA OpenIs ==
  ASSUME GraphOK, NEW call \in Calls, NEW S \in Open(call)
  PROVE  /\ S \in Cliques /\ S \in SUBSET Bits /\ Cardinality(S) \in Nat
         /\ S \ call.record \in Cliques
         /\ S \ call.record \subseteq Candidates(call)
         /\ Cardinality(S \ call.record) \in Nat
         /\ Cardinality(S) = Cardinality(call.record) + Cardinality(S \ call.record)
         /\ Candidates(call) = {} => S = call.record
<1>1. S \in Cliques /\ call.record \subseteq S /\ S \subseteq call.record \cup Candidates(call)
  BY DEF Open
<1>2. S \in SUBSET Bits
  BY <1>1 DEF Cliques
<1>3. S \ call.record \in Cliques /\ S \ call.record \subseteq Candidates(call)
  BY <1>1, PartOfClique
<1>4. S \ call.record \in SUBSET Bits
  BY <1>2
<1>5. IsFiniteSet(S) /\ Cardinality(S) \in Nat /\ Cardinality(S \ call.record) \in Nat
  BY <1>2, <1>4, MappingsAreCounted
<1>6. Cardinality(S \ call.record) = Cardinality(S) - Cardinality(call.record)
  <2>1. S \cap call.record = call.record
    BY <1>1
  <2>2. QED BY <1>5, <2>1, FS_Difference
<1>7. Cardinality(call.record) \in Nat
  BY CallIs
<1>8. Candidates(call) = {} => S = call.record
  BY <1>1
<1>9. QED BY <1>1, <1>2, <1>3, <1>5, <1>6, <1>7, <1>8

\* What is taken is better by one at most: without the first of it, it is later.
LEMMA TakenIs ==
  ASSUME GraphOK, NEW a \in Bits, NEW call, InTurn(a, call)
  PROVE  /\ Cardinality(call.record) <= call.state.max + 1
         /\ call.record \in Open(call)
<1>1. call \in Calls /\ Agree(a, call) /\ Known(a, call.state)
  BY DEF InTurn
<1>2. call.record \in SUBSET Bits /\ Cardinality(call.record) \in Nat /\ call.state.max \in Nat
  BY <1>1, CallIs
<1>3. a \in call.record /\ call.record \in Cliques /\ \A i \in call.record : i >= a
  BY <1>1 DEF Agree
<1>4. call.record \ {a} \in Later(a)
  <2>1. call.record \ {a} \in Cliques
    BY <1>3, PartOfClique
  <2>2. \A i \in call.record \ {a} : i > a
    BY <1>2, <1>3 DEF Bits
  <2>3. QED BY <2>1, <2>2 DEF Later
<1>5. Cardinality(call.record \ {a}) <= call.state.max
  BY <1>1, <1>4 DEF Known
<1>6. Cardinality(call.record \ {a}) = Cardinality(call.record) - 1
  BY <1>2, <1>3, MappingsAreCounted
<1>7. call.record \in Open(call)
  BY <1>3 DEF Open
<1>8. QED BY <1>2, <1>5, <1>6, <1>7

\* The record of a better clique.
LEMMA FoundIs ==
  ASSUME GraphOK, NEW s \in States, NEW R \in Cliques, NEW n \in Nat, n = Cardinality(R), n > s.max
  PROVE  /\ Found(s, R) \in States /\ Found(s, R).found /\ Found(s, R).max = n
         /\ IsBest(Found(s, R))
         /\ Found(s, R).at = s.at /\ Found(s, R).over = s.over /\ Found(s, R).table = s.table
         /\ Found(s, R).iterations = s.iterations
<1>1. PICK q : q = [i \in Bits |-> i \in R]
  OBVIOUS
<1>2. q \in [Bits -> BOOLEAN] /\ \A i \in Bits : q[i] = (i \in R)
  <2>1. q \in [Bits -> BOOLEAN]
    BY <1>1
  <2>2. \A i \in Bits : q[i] = (i \in R)
    BY <1>1
  <2>3. QED BY <2>1, <2>2
<1>3. PICK r : r = Found(s, R)
  OBVIOUS
<1>4. r = [s EXCEPT !.max = n, !.found = TRUE, !.clique = q]
  BY <1>1, <1>3 DEF Found
<1>5. /\ r \in States /\ r.found = TRUE /\ r.max = n /\ r.clique = q
      /\ r.at = s.at /\ r.over = s.over /\ r.table = s.table /\ r.iterations = s.iterations
  BY <1>2, <1>4 DEF States
<1>6. R \in SUBSET Bits /\ \A i, j \in R : i # j => {i, j} \in edges
  BY DEF Cliques
<1>7. IsClique(q)
  BY <1>2, <1>6 DEF IsClique
<1>8. GetNumberBitsSet(q) = n
  <2>1. {i \in DOMAIN q : q[i]} = R
    BY <1>2, <1>6
  <2>2. QED BY <2>1 DEF GetNumberBitsSet
<1>9. IsBest(r)
  BY <1>5, <1>7, <1>8 DEF IsBest
<1>10. QED BY <1>3, <1>5, <1>9

\* Clique is right when the loop is.
LEMMA CliqueRight ==
  ASSUME GraphOK, NEW a \in Bits, NEW call, InTurn(a, call), NEW scan \in [Calls -> States],
         \A loop \in Calls :
           /\ InTurn(a, loop)
           /\ Candidates(loop) = Candidates(call) /\ Candidates(loop) # {}
           => Right(loop, scan[loop])
  PROVE  Right(call, Clique(scan, call))
<1>1. call \in Calls /\ call.state.found = FALSE
  <2>1. call \in Calls /\ ~call.state.found
    BY DEF InTurn
  <2>2. QED BY <2>1, CallIs
<1>2. PICK s \in States : s = call.state
  BY <1>1, CallIs
<1>3. PICK c : c = [s EXCEPT !.iterations = @ + 1]
  OBVIOUS
<1>4. /\ c \in States /\ c.iterations = s.iterations + 1
      /\ c.at = s.at /\ c.over = s.over /\ c.table = s.table /\ c.found = s.found
      /\ c.max = s.max /\ c.clique = s.clique
  BY <1>3, CountedIs
<1>5. s.iterations \in Nat /\ s.max \in Nat /\ c.iterations >= s.iterations
  <2>1. s.iterations \in Nat /\ s.max \in Nat
    BY DEF States
  <2>2. QED BY <1>4, <2>1
<1>6. PICK r : r = Clique(scan, call)
  OBVIOUS
<1>7. r = IF GetNumberBitsSet(call.valid) = 0 THEN Found(c, call.record)
          ELSE IF c.iterations > patience THEN [c EXCEPT !.found = TRUE]
          ELSE scan[[call EXCEPT !.state = c]]
  BY <1>2, <1>3, <1>6 DEF Clique
<1>8. GetNumberBitsSet(call.valid) = 0 <=> Candidates(call) = {}
  BY <1>1, CallIs
<1>9. CASE Candidates(call) = {}
  <2>1. r = Found(c, call.record)
    BY <1>7, <1>8, <1>9
  <2>2. PICK n \in Nat : n = Cardinality(call.record)
    BY <1>1, CallIs
  <2>3. n <= s.max + 1 /\ call.record \in Cliques
    BY <1>2, <2>2, TakenIs DEF InTurn, Agree
  <2>4. CASE n > s.max
    <3>1. /\ r \in States /\ r.found /\ r.max = n /\ IsBest(r)
          /\ r.at = c.at /\ r.over = c.over /\ r.table = c.table /\ r.iterations = c.iterations
      BY <1>4, <2>1, <2>2, <2>3, <2>4, FoundIs
    <3>2. n = s.max + 1
      BY <1>5, <2>3, <2>4
    <3>3. Succeeds(call, r)
      BY <1>2, <3>1, <3>2 DEF Succeeds
    <3>4. Same(call.state, r)
      BY <1>2, <1>4, <1>5, <3>1 DEF Same
    <3>5. QED BY <1>6, <3>1, <3>3, <3>4 DEF Right
  <2>5. CASE ~(n > s.max)
    <3>1. r = c
      BY <1>4, <2>1, <2>2, <2>5 DEF Found
    <3>2. NoBetter(call)
      <4>1. \A S \in Open(call) : S = call.record
        BY <1>1, <1>9, OpenIs
      <4>2. QED BY <1>2, <1>5, <2>2, <2>5, <4>1 DEF NoBetter
    <3>3. Fails(call, r)
      BY <1>1, <1>2, <1>4, <3>1, <3>2 DEF Fails, SameBest
    <3>4. Same(call.state, r)
      BY <1>2, <1>4, <1>5, <3>1 DEF Same
    <3>5. QED BY <1>4, <1>6, <3>1, <3>3, <3>4 DEF Right
  <2>6. QED BY <2>4, <2>5
<1>10. CASE Candidates(call) # {} /\ c.iterations > patience
  <2>1. r = [c EXCEPT !.found = TRUE]
    BY <1>7, <1>8, <1>10
  <2>2. /\ r \in States /\ r.found /\ r.max = c.max /\ r.clique = c.clique
        /\ r.at = c.at /\ r.over = c.over /\ r.table = c.table /\ r.iterations = c.iterations
    BY <1>4, <2>1 DEF States
  <2>3. RunsOut(call, r)
    BY <1>2, <1>4, <1>10, <2>2 DEF RunsOut, SameBest
  <2>4. Same(call.state, r)
    BY <1>2, <1>4, <1>5, <2>2 DEF Same
  <2>5. QED BY <1>6, <2>2, <2>3, <2>4 DEF Right
<1>11. CASE Candidates(call) # {} /\ ~(c.iterations > patience)
  <2>1. PICK loop : loop = [call EXCEPT !.state = c]
    OBVIOUS
  <2>2. /\ loop \in Calls /\ loop.state = c /\ loop.valid = call.valid
        /\ loop.record = call.record /\ loop.index = call.index
    BY <1>1, <1>4, <2>1 DEF Calls
  <2>3. r = scan[loop]
    BY <1>7, <1>8, <1>11, <2>1
  <2>4. Candidates(loop) = Candidates(call) /\ Open(loop) = Open(call)
    BY <2>2 DEF Candidates, Open
  <2>5. InTurn(a, loop)
    <3>1. Agree(a, loop)
      BY <2>2, <2>4 DEF InTurn, Agree
    <3>2. Known(a, loop.state)
      BY <1>2, <1>4, <2>2 DEF InTurn, Known
    <3>3. ~loop.state.found
      BY <1>1, <1>2, <1>4, <2>2
    <3>4. QED BY <2>2, <3>1, <3>2, <3>3 DEF InTurn
  <2>6. Right(loop, r)
    BY <1>11, <2>2, <2>3, <2>4, <2>5
  <2>7. r \in States /\ Same(call.state, r)
    <3>1. r \in States /\ Same(c, r)
      BY <2>2, <2>6 DEF Right
    <3>2. r.iterations \in Nat
      BY <3>1 DEF States
    <3>3. QED BY <1>2, <1>4, <1>5, <3>1, <3>2 DEF Same
  <2>8. Fails(loop, r) => Fails(call, r)
    BY <1>2, <1>4, <2>2, <2>4 DEF Fails, SameBest, NoBetter
  <2>9. Succeeds(loop, r) => Succeeds(call, r)
    BY <1>2, <1>4, <2>2 DEF Succeeds
  <2>10. RunsOut(loop, r) => RunsOut(call, r)
    BY <1>2, <1>4, <2>2, <2>4 DEF RunsOut, SameBest
  <2>11. QED BY <1>6, <2>6, <2>7, <2>8, <2>9, <2>10 DEF Right
<1>12. QED BY <1>9, <1>10, <1>11

\* Candidates come after the taken ones, so the first may be taken then.
LEMMA WithIsInTurn ==
  ASSUME GraphOK, NEW a \in Bits, NEW loop, InTurn(a, loop), NEW i \in Candidates(loop),
         \A j \in Candidates(loop) : j >= i
  PROVE  /\ InTurn(a, With(loop, i))
         /\ Candidates(With(loop, i)) \subseteq Candidates(loop) \ {i}
         /\ With(loop, i).record = loop.record \cup {i} /\ With(loop, i).state = loop.state
<1>1. loop \in Calls /\ ~loop.state.found /\ Agree(a, loop) /\ Known(a, loop.state)
  BY DEF InTurn
<1>2. loop.state \in States /\ Candidates(loop) \in SUBSET Bits /\ loop.record \in SUBSET Bits
  BY <1>1, CallIs
<1>3. PICK w : w = With(loop, i)
  OBVIOUS
<1>4. /\ w \in Calls
      /\ Candidates(w) = {j \in Candidates(loop) : j # i /\ {i, j} \in edges}
  BY <1>1, <1>2, <1>3, CallsMade
<1>5. w.state = loop.state /\ w.index = i /\ w.record = loop.record \cup {i}
  BY <1>3 DEF With
<1>6. /\ a \in loop.record /\ loop.record \in Cliques /\ \A k \in loop.record : k >= a
      /\ \A j \in Candidates(loop) : j > a
      /\ \A j \in Candidates(loop) : \A k \in loop.record : {k, j} \in edges
  BY <1>1 DEF Agree
<1>7. w.record \in Cliques
  <2>1. w.record \in SUBSET Bits
    BY <1>2, <1>5
  <2>2. ASSUME NEW j \in w.record, NEW k \in w.record, j # k PROVE {j, k} \in edges
    <3>1. CASE j = i
      <4>1. k \in loop.record /\ {k, i} \in edges /\ {k, i} = {j, k}
        BY <1>5, <1>6, <2>2, <3>1
      <4>2. QED BY <4>1
    <3>2. CASE k = i
      <4>1. j \in loop.record /\ {j, i} \in edges
        BY <1>5, <1>6, <2>2, <3>2
      <4>2. QED BY <3>2, <4>1
    <3>3. CASE j # i /\ k # i
      BY <1>5, <1>6, <2>2, <3>3 DEF Cliques
    <3>4. QED BY <3>1, <3>2, <3>3
  <2>3. QED BY <2>1, <2>2 DEF Cliques
<1>8. \A k \in w.record : k >= a
  <2>1. i \in Int /\ a \in Int /\ i > a
    BY <1>2, <1>6 DEF Bits
  <2>2. QED BY <1>5, <1>6, <2>1
<1>9. \A j \in Candidates(w) : j > a /\ j >= w.index
  BY <1>4, <1>5, <1>6
<1>10. \A j \in Candidates(w) : \A k \in w.record : {k, j} \in edges
  BY <1>4, <1>5, <1>6
<1>11. Agree(a, w)
  BY <1>5, <1>6, <1>7, <1>8, <1>9, <1>10 DEF Agree
<1>12. InTurn(a, w)
  BY <1>1, <1>4, <1>5, <1>11 DEF InTurn
<1>13. QED BY <1>3, <1>4, <1>5, <1>12

LEMMA WithoutIsInTurn ==
  ASSUME GraphOK, NEW a \in Bits, NEW loop, InTurn(a, loop), NEW i \in Candidates(loop),
         \A j \in Candidates(loop) : j >= i,
         NEW tried \in States, ~tried.found, Same(loop.state, tried), SameBest(loop.state, tried)
  PROVE  /\ InTurn(a, Without(loop, i, tried))
         /\ Candidates(Without(loop, i, tried)) = Candidates(loop) \ {i}
         /\ Without(loop, i, tried).record = loop.record /\ Without(loop, i, tried).state = tried
<1>1. loop \in Calls /\ ~loop.state.found /\ Agree(a, loop) /\ Known(a, loop.state)
  BY DEF InTurn
<1>2. Candidates(loop) \in SUBSET Bits
  BY <1>1, CallIs
<1>3. PICK w : w = Without(loop, i, tried)
  OBVIOUS
<1>4. w \in Calls /\ Candidates(w) = Candidates(loop) \ {i}
  BY <1>1, <1>2, <1>3, CallsMade
<1>5. w.state = tried /\ w.index = i /\ w.record = loop.record
  BY <1>3 DEF Without
<1>6. Agree(a, w)
  BY <1>1, <1>4, <1>5 DEF Agree
<1>7. Known(a, w.state)
  <2>1. tried.table = loop.state.table /\ tried.max = loop.state.max
    BY DEF Same, SameBest
  <2>2. QED BY <1>1, <1>5, <2>1 DEF Known
<1>8. InTurn(a, w)
  BY <1>4, <1>5, <1>6, <1>7 DEF InTurn
<1>9. QED BY <1>3, <1>4, <1>5, <1>8

\* The loop leaves out no better clique when it ends.
LEMMA EndsRight ==
  ASSUME GraphOK, NEW a \in Bits, NEW loop, InTurn(a, loop),
         Candidates(loop) = {} => Cardinality(loop.record) <= loop.state.max,
         NEW i \in Bits, Candidates(loop) # {} => i \in Candidates(loop),
         \A j \in Candidates(loop) : j >= i, Ends(loop, i)
  PROVE  Right(loop, loop.state)
<1>1. loop \in Calls /\ ~loop.state.found /\ Agree(a, loop) /\ Known(a, loop.state)
  BY DEF InTurn
<1>2. PICK R \in SUBSET Bits : R = loop.record
  BY <1>1, CallIs
<1>3. PICK C \in SUBSET Bits : C = Candidates(loop)
  BY <1>1, CallIs
<1>4. /\ loop.state \in States /\ loop.state.max \in Nat /\ loop.state.iterations \in Nat
      /\ Cardinality(R) \in Nat /\ Cardinality(C) \in Nat
      /\ GetNumberBitsSet(loop.valid) = Cardinality(C) /\ (Cardinality(C) = 0 <=> C = {})
      /\ loop.state.table \in [Bits -> Nat]
  BY <1>1, <1>2, <1>3, CallIs
<1>5. PICK max \in Nat : max = loop.state.max
  BY <1>4
<1>6. ASSUME NEW S \in Open(loop) PROVE Cardinality(S) <= max
  <2>1. PICK T : T = S \ R
    OBVIOUS
  <2>2. /\ T \in Cliques /\ T \subseteq C /\ Cardinality(T) \in Nat
        /\ Cardinality(S) = Cardinality(R) + Cardinality(T)
        /\ C = {} => S = R
    BY <1>1, <1>2, <1>3, <2>1, OpenIs
  <2>3. CASE C = {}
    BY <1>2, <1>3, <1>5, <2>2, <2>3
  <2>4. CASE TooFew(loop)
    <3>1. Cardinality(R) + Cardinality(C) <= max
      BY <1>2, <1>4, <1>5, <2>4 DEF TooFew
    <3>2. Cardinality(T) <= Cardinality(C)
      <4>1. T \in SUBSET Bits
        BY <1>3, <2>2
      <4>2. QED BY <2>2, <4>1, MappingsAreCounted
    <3>3. QED BY <1>4, <2>2, <3>1, <3>2
  <2>5. CASE C # {} /\ Cardinality(R) + loop.state.table[i] <= max
    <3>1. i \in C /\ \A j \in C : j >= i
      BY <1>3, <2>5
    <3>2. i > a
      BY <1>1, <1>3, <3>1 DEF Agree
    <3>3. \A j \in T : j > i - 1
      BY <1>3, <2>2, <3>1 DEF Bits
    <3>4. T \in Later(i - 1)
      BY <2>2, <3>3 DEF Later
    <3>5. Cardinality(T) <= loop.state.table[i]
      BY <1>1, <3>2, <3>4 DEF Known
    <3>6. loop.state.table[i] \in Nat
      BY <1>4
    <3>7. QED BY <1>4, <2>2, <2>5, <3>5, <3>6
  <2>6. QED BY <1>2, <1>4, <1>5, <2>3, <2>4, <2>5 DEF Ends
<1>7. NoBetter(loop)
  BY <1>5, <1>6 DEF NoBetter
<1>8. Fails(loop, loop.state)
  BY <1>1, <1>7 DEF Fails, SameBest
<1>9. Same(loop.state, loop.state)
  BY <1>4 DEF Same
<1>10. QED BY <1>4, <1>8, <1>9 DEF Right

\* A turn of the loop is right when the turns that follow are.
ScanRight(a, scan, m) ==
  \A loop \in Calls :
    /\ InTurn(a, loop)
    /\ Cardinality(Candidates(loop)) <= m
    /\ Candidates(loop) = {} => Cardinality(loop.record) <= loop.state.max
    => Right(loop, scan[loop])

LEMMA CandidateRight ==
  ASSUME GraphOK, NEW a \in Bits, NEW m \in Nat, NEW scan \in [Calls -> States], ScanRight(a, scan, m),
         NEW loop, InTurn(a, loop), Cardinality(Candidates(loop)) <= m + 1,
         Candidates(loop) = {} => Cardinality(loop.record) <= loop.state.max
  PROVE  Right(loop, Candidate(scan, loop))
<1>1. loop \in Calls /\ Agree(a, loop)
  BY DEF InTurn
<1>2. PICK i : i = First(loop)
  OBVIOUS
<1>3. i \in Bits /\ Candidate(scan, loop) \in States
  BY <1>1, <1>2, CandidateIs
<1>4. PICK C \in SUBSET Bits : C = Candidates(loop) /\ Cardinality(C) \in Nat
  BY <1>1, CallIs
<1>5. (C # {} => i \in C) /\ \A j \in C : j >= i
  <2>1. loop.valid \in [Bits -> BOOLEAN] /\ loop.index \in Bits
    BY <1>1, CallIs
  <2>2. \A j \in Bits : j \in C => loop.valid[j] /\ j >= loop.index
    BY <1>1, <1>4 DEF Agree, Candidates
  <2>3. \A j \in Bits : loop.valid[j] => j \in C
    BY <1>4 DEF Candidates
  <2>4. \A j \in Bits : j >= loop.index /\ loop.valid[j] => j >= i
    BY <1>2, <2>1, FirstIs DEF First
  <2>5. (\E j \in Bits : j >= loop.index /\ loop.valid[j]) => loop.valid[i]
    BY <1>2, <2>1, FirstIs DEF First
  <2>6. QED BY <1>3, <1>4, <2>2, <2>3, <2>4, <2>5
<1>6. CASE Ends(loop, i)
  <2>1. Candidate(scan, loop) = loop.state
    BY <1>1, <1>2, <1>6, CandidateIs
  <2>2. Right(loop, loop.state)
    BY <1>3, <1>4, <1>5, <1>6, EndsRight
  <2>3. QED BY <2>1, <2>2
<1>7. CASE ~Ends(loop, i)
  <2>1. C # {}
    <3>1. GetNumberBitsSet(loop.valid) # 0
      BY <1>7 DEF Ends
    <3>2. QED BY <1>1, <1>4, <3>1, CallIs
  <2>2. i \in C /\ \A j \in C : j >= i
    BY <1>5, <2>1
  <2>3. PICK with : with = With(loop, i)
    OBVIOUS
  <2>4. /\ InTurn(a, with) /\ Candidates(with) \subseteq C \ {i}
        /\ with.record = loop.record \cup {i} /\ with.state = loop.state
    BY <1>4, <2>2, <2>3, WithIsInTurn
  <2>5. C \ {i} \in SUBSET Bits /\ Cardinality(C \ {i}) = Cardinality(C) - 1
    BY <2>2, MappingsAreCounted
  <2>6. Cardinality(C \ {i}) <= m
    BY <1>4, <2>5
  <2>7. Candidates(with) \in SUBSET Bits /\ Cardinality(Candidates(with)) <= m
    <3>1. Candidates(with) \in SUBSET Bits
      BY <2>4
    <3>2. Cardinality(Candidates(with)) <= Cardinality(C \ {i})
      BY <2>4, <2>5, <3>1, MappingsAreCounted
    <3>3. Cardinality(Candidates(with)) \in Nat /\ Cardinality(C \ {i}) \in Nat
      BY <2>5, <3>1, MappingsAreCounted
    <3>4. QED BY <2>6, <3>1, <3>2, <3>3
  <2>8. PICK tried : tried = Clique(scan, with)
    OBVIOUS
  <2>9. Right(with, tried)
    <3>1. \A then \in Calls :
            /\ InTurn(a, then)
            /\ Candidates(then) = Candidates(with) /\ Candidates(then) # {}
            => Right(then, scan[then])
      BY <2>7 DEF ScanRight
    <3>2. QED BY <2>4, <2>8, <3>1, CliqueRight
  <2>10. tried \in States /\ Same(loop.state, tried)
    BY <2>4, <2>9 DEF Right
  <2>11. CASE tried.found
    <3>1. Candidate(scan, loop) = tried
      BY <1>1, <1>2, <1>7, <2>3, <2>8, <2>11, CandidateIs
    <3>2. Succeeds(with, tried) \/ RunsOut(with, tried)
      BY <2>9, <2>11 DEF Right, Fails
    <3>3. Succeeds(with, tried) => Succeeds(loop, tried)
      BY <2>4 DEF Succeeds
    <3>4. RunsOut(with, tried) => RunsOut(loop, tried)
      BY <1>4, <2>1, <2>4 DEF RunsOut
    <3>5. QED BY <2>10, <3>1, <3>2, <3>3, <3>4 DEF Right
  <2>12. CASE ~tried.found
    <3>1. Fails(with, tried)
      BY <2>9, <2>12 DEF Right, Succeeds, RunsOut
    <3>2. SameBest(loop.state, tried) /\ NoBetter(with)
      BY <2>4, <3>1 DEF Fails
    <3>3. PICK out : out = Without(loop, i, tried)
      OBVIOUS
    <3>4. /\ InTurn(a, out) /\ Candidates(out) = C \ {i}
          /\ out.record = loop.record /\ out.state = tried
      BY <1>4, <2>2, <2>10, <2>12, <3>2, <3>3, WithoutIsInTurn
    <3>5. out \in Calls
      BY <3>4 DEF InTurn
    <3>6. loop.state.max \in Nat /\ tried.max = loop.state.max
      BY <1>1, <3>2, CallIs DEF SameBest
    <3>7. Cardinality(out.record) <= out.state.max
      <4>1. with.record \in Open(with)
        BY <2>4, TakenIs
      <4>2. Cardinality(loop.record \cup {i}) <= loop.state.max
        BY <2>4, <3>2, <4>1 DEF NoBetter
      <4>3. loop.record \in SUBSET Bits /\ loop.record \cup {i} \in SUBSET Bits
        BY <1>1, <1>3, CallIs
      <4>4. Cardinality(loop.record) <= Cardinality(loop.record \cup {i})
        BY <4>3, MappingsAreCounted
      <4>5. Cardinality(loop.record) \in Nat /\ Cardinality(loop.record \cup {i}) \in Nat
        BY <4>3, MappingsAreCounted
      <4>6. QED BY <3>4, <3>6, <4>2, <4>4, <4>5
    <3>8. PICK r : r = scan[out]
      OBVIOUS
    <3>9. Right(out, r)
      BY <2>6, <3>4, <3>5, <3>7, <3>8 DEF ScanRight
    <3>10. Candidate(scan, loop) = r
      BY <1>1, <1>2, <1>7, <2>3, <2>8, <2>12, <3>3, <3>8, CandidateIs
    <3>11. r \in States /\ Same(tried, r)
      BY <3>4, <3>9 DEF Right
    <3>12. Same(loop.state, r)
      <4>1. r.iterations \in Nat /\ tried.iterations \in Nat /\ loop.state.iterations \in Nat
        BY <1>1, <2>10, <3>11, CallIs DEF States
      <4>2. QED BY <2>10, <3>11, <4>1 DEF Same
    <3>13. Fails(out, r) => Fails(loop, r)
      <4>1. SUFFICES ASSUME Fails(out, r) PROVE Fails(loop, r)
        OBVIOUS
      <4>2. ~r.found /\ SameBest(tried, r) /\ NoBetter(out)
        BY <3>4, <4>1 DEF Fails
      <4>3. SameBest(loop.state, r)
        BY <3>2, <4>2 DEF SameBest
      <4>4. ASSUME NEW S \in Open(loop) PROVE Cardinality(S) <= loop.state.max
        <5>1. S \in Cliques /\ loop.record \subseteq S /\ S \subseteq loop.record \cup C
          BY <1>4 DEF Open
        <5>2. CASE i \in S
          <6>1. Candidates(with) = {j \in C : j # i /\ {i, j} \in edges}
            BY <1>1, <1>3, <1>4, <2>3, <2>10, CallsMade
          <6>2. S \subseteq with.record \cup Candidates(with)
            BY <2>4, <5>1, <5>2, <6>1 DEF Cliques
          <6>3. with.record \subseteq S
            BY <2>4, <5>1, <5>2
          <6>4. S \in Open(with)
            BY <5>1, <6>2, <6>3 DEF Open
          <6>5. QED BY <2>4, <3>2, <6>4 DEF NoBetter
        <5>3. CASE i \notin S
          <6>1. S \in Open(out)
            BY <3>4, <5>1, <5>3 DEF Open
          <6>2. QED BY <3>4, <3>6, <4>2, <6>1 DEF NoBetter
        <5>4. QED BY <5>2, <5>3
      <4>5. NoBetter(loop)
        BY <4>4 DEF NoBetter
      <4>6. QED BY <4>2, <4>3, <4>5 DEF Fails
    <3>14. Succeeds(out, r) => Succeeds(loop, r)
      BY <3>4, <3>6 DEF Succeeds
    <3>15. RunsOut(out, r) => RunsOut(loop, r)
      BY <1>4, <2>1, <3>2, <3>4 DEF RunsOut, SameBest
    <3>16. QED BY <3>9, <3>10, <3>11, <3>12, <3>13, <3>14, <3>15 DEF Right
  <2>13. QED BY <2>11, <2>12
<1>8. QED BY <1>6, <1>7

\* For any number of candidates.
LEMMA ScansRight ==
  ASSUME GraphOK, NEW a \in Bits
  PROVE  \A m \in 0 .. size : ScanRight(a, Scan[m], m)
<1>1. \A m \in 0 .. size : Scan[m] \in [Calls -> States]
  BY ScanIs
<1>2. ScanRight(a, Scan[0], 0)
  <2>1. SUFFICES ASSUME NEW loop \in Calls, InTurn(a, loop), Cardinality(Candidates(loop)) <= 0,
                        Candidates(loop) = {} => Cardinality(loop.record) <= loop.state.max
                 PROVE  Right(loop, Scan[0][loop])
    BY DEF ScanRight
  <2>2. Scan[0][loop] = loop.state
    BY ScanIs
  <2>3. Candidates(loop) = {} /\ GetNumberBitsSet(loop.valid) = 0 /\ loop.index \in Bits
    BY <2>1, CallIs
  <2>4. Ends(loop, loop.index)
    BY <2>3 DEF Ends
  <2>5. QED BY <2>1, <2>2, <2>3, <2>4, EndsRight
<1>3. ASSUME NEW m \in 1 .. size, ScanRight(a, Scan[m - 1], m - 1) PROVE ScanRight(a, Scan[m], m)
  <2>1. m - 1 \in Nat /\ m - 1 \in 0 .. size /\ m - 1 + 1 = m
    BY DEF GraphOK
  <2>2. PICK scan \in [Calls -> States] : scan = Scan[m - 1]
    BY <1>1, <2>1
  <2>3. SUFFICES ASSUME NEW loop \in Calls, InTurn(a, loop), Cardinality(Candidates(loop)) <= m,
                        Candidates(loop) = {} => Cardinality(loop.record) <= loop.state.max
                 PROVE  Right(loop, Scan[m][loop])
    BY DEF ScanRight
  <2>4. Scan[m][loop] = Candidate(scan, loop)
    BY <2>2, ScanIs
  <2>5. PICK n \in Nat : n = m - 1
    BY <2>1
  <2>6. ScanRight(a, scan, n) /\ Cardinality(Candidates(loop)) <= n + 1
    BY <1>3, <2>1, <2>2, <2>3, <2>5
  <2>7. Right(loop, Candidate(scan, loop))
    BY <2>3, <2>6, CandidateRight
  <2>8. QED BY <2>4, <2>7
<1>4. PICK Bad : Bad = {m \in 0 .. size : ~ScanRight(a, Scan[m], m)}
  OBVIOUS
<1>5. SUFFICES ASSUME Bad # {} PROVE FALSE
  BY <1>4
<1>6. Bad \subseteq Nat
  BY <1>4
<1>7. PICK m \in Bad : \A c \in Bad : ~(<<c, m>> \in OpToRel(<, Nat))
  BY <1>5, <1>6, WFMin, NatLessThanWellFounded
<1>8. m \in 0 .. size /\ ~ScanRight(a, Scan[m], m)
  BY <1>4
<1>9. m # 0
  BY <1>2, <1>8
<1>10. m \in 1 .. size /\ m - 1 \in 0 .. size /\ m - 1 < m
  BY <1>8, <1>9 DEF GraphOK
<1>11. m - 1 \notin Bad
  <2>1. m - 1 \in Bad => <<m - 1, m>> \in OpToRel(<, Nat)
    BY <1>6, <1>10 DEF OpToRel
  <2>2. QED BY <1>7, <2>1
<1>12. ScanRight(a, Scan[m - 1], m - 1)
  BY <1>4, <1>10, <1>11
<1>13. QED BY <1>3, <1>8, <1>10, <1>12

-----------------------------------------------------------------------------
(* The turns of the search.                                                 *)

\* No clique of the mappings done is larger than the best one or than the table
\* says, unless the bound was reached or the time is over.
CliqueInv ==
  /\ GraphOK
  /\ clique \in States
  /\ clique.at \in -1 .. size - 1
  /\ clique.max <= upperBound
  /\ ~clique.over => clique.max < upperBound /\ Known(clique.at, clique)
  /\ clique.over => clique.max = upperBound \/ clique.iterations > patience
  /\ clique.at = size - 1 => clique.max = 0 /\ ~clique.over
  /\ clique.at < size - 1 \/ size = 0 => IsBest(clique)

LEMMA CliqueStarts ==
  ASSUME CliqueAssumption, MaxCliqueInit
  PROVE  CliqueInv
<1>1. size \in Nat /\ patience \in Nat /\ upperBound \in Nat \ {0}
  BY DEF CliqueAssumption, MaxCliqueInit
<1>2. \A i \in Bits : {i} \notin edges
  <2>1. \A e \in edges : Cardinality(e) = 2
    BY DEF MaxCliqueInit
  <2>2. \A i \in Bits : Cardinality({i}) = 1
    BY FS_Singleton
  <2>3. QED BY <2>1, <2>2
<1>3. GraphOK
  BY <1>1, <1>2 DEF GraphOK
<1>4. PICK q : q = Fill(Init_(size), TRUE)
  OBVIOUS
<1>5. q \in [Bits -> BOOLEAN] /\ DOMAIN q = Bits
  BY <1>4 DEF Fill, Init_, Bits
<1>6. clique = [at |-> size - 1, over |-> FALSE, max |-> 0, iterations |-> 0, found |-> FALSE,
                table |-> [i \in Bits |-> 0], clique |-> q]
  BY <1>4 DEF MaxCliqueInit, CliqueStart
<1>7. /\ clique \in States /\ clique.at = size - 1 /\ clique.max = 0 /\ ~clique.over
      /\ clique.clique = q
  BY <1>1, <1>5, <1>6 DEF States
<1>8. Known(clique.at, clique)
  <2>1. ASSUME NEW S \in Later(clique.at) PROVE Cardinality(S) <= clique.max
    <3>1. \A i \in S : i \in 0 .. size - 1 /\ i > size - 1
      BY <1>7 DEF Later, Cliques, Bits
    <3>2. S = {}
      BY <1>1, <3>1
    <3>3. QED BY <1>7, <3>2, FS_EmptySet
  <2>2. \A j \in Bits : ~(j > clique.at)
    BY <1>1, <1>7 DEF Bits
  <2>3. QED BY <2>1, <2>2 DEF Known
<1>9. ASSUME size = 0 PROVE IsBest(clique)
  <2>1. Bits = {}
    BY <1>9 DEF Bits
  <2>2. IsClique(q)
    BY <2>1 DEF IsClique
  <2>3. GetNumberBitsSet(q) = 0
    <3>1. {i \in DOMAIN q : q[i]} = {}
      BY <1>5, <2>1
    <3>2. QED BY <3>1, FS_EmptySet DEF GetNumberBitsSet
  <2>4. QED BY <1>7, <2>2, <2>3 DEF IsBest
<1>10. clique.at \in -1 .. size - 1 /\ ~(clique.at < size - 1) /\ clique.max < upperBound
  BY <1>1, <1>7
<1>11. clique.max <= upperBound
  BY <1>1, <1>7
<1>12. QED BY <1>3, <1>7, <1>8, <1>9, <1>10, <1>11 DEF CliqueInv

\* The call a turn makes.
Asked(i) ==
  [state |-> [clique EXCEPT !.found = FALSE], valid |-> AndWith([j \in Bits |-> j >= i], Neighbors[i]),
   index |-> i, record |-> {i}]

LEMMA AskedIs ==
  ASSUME CliqueInv, NEW i \in Bits, i = clique.at, ~clique.over
  PROVE  /\ InTurn(i, Asked(i)) /\ Asked(i).state = [clique EXCEPT !.found = FALSE]
         /\ Asked(i).record = {i}
         /\ Candidates(Asked(i)) = {j \in Bits : j > i /\ {i, j} \in edges}
<1>1. PICK call : call = Asked(i)
  OBVIOUS
<1>2. PICK s : s = [clique EXCEPT !.found = FALSE]
  OBVIOUS
<1>3. PICK both : both = AndWith([j \in Bits |-> j >= i], Neighbors[i])
  OBVIOUS
<1>4. call = [state |-> s, valid |-> both, index |-> i, record |-> {i}]
  BY <1>1, <1>2, <1>3 DEF Asked
<1>5. both = [j \in Bits |-> j >= i /\ {i, j} \in edges]
  <2>1. Neighbors[i] = [j \in Bits |-> {i, j} \in edges]
    BY DEF Neighbors
  <2>2. QED BY <1>3, <2>1 DEF AndWith
<1>6. both \in [Bits -> BOOLEAN] /\ \A j \in Bits : both[j] = (j >= i /\ {i, j} \in edges)
  <2>1. both \in [Bits -> BOOLEAN]
    BY <1>5
  <2>2. \A j \in Bits : both[j] = (j >= i /\ {i, j} \in edges)
    BY <1>5
  <2>3. QED BY <2>1, <2>2
<1>7. /\ s \in States /\ s.found = FALSE /\ s.max = clique.max /\ s.table = clique.table
  BY <1>2 DEF CliqueInv, States
<1>8. call \in Calls
  BY <1>4, <1>6, <1>7 DEF Calls
<1>9. Candidates(call) = {j \in Bits : j > i /\ {i, j} \in edges}
  <2>1. Candidates(call) = {j \in Bits : j >= i /\ {i, j} \in edges}
    BY <1>4, <1>6 DEF Candidates
  <2>2. \A j \in Bits : j >= i /\ {i, j} \in edges => j # i
    BY DEF CliqueInv, GraphOK
  <2>3. \A j \in Bits : j >= i /\ j # i <=> j > i
    BY DEF Bits
  <2>4. QED BY <2>1, <2>2, <2>3
<1>10. Agree(i, call)
  <2>1. {i} \in Cliques
    BY DEF Cliques
  <2>2. i >= i
    BY DEF Bits
  <2>3. \A j \in Bits : j > i => j >= i
    BY DEF Bits
  <2>4. QED BY <1>4, <1>9, <2>1, <2>2, <2>3 DEF Agree
<1>11. Known(i, call.state)
  BY <1>4, <1>7 DEF CliqueInv, Known
<1>12. InTurn(i, call)
  <2>1. ~call.state.found
    BY <1>4, <1>7
  <2>2. QED BY <1>8, <1>10, <1>11, <2>1 DEF InTurn
<1>13. call.state = [clique EXCEPT !.found = FALSE] /\ call.record = {i}
  BY <1>2, <1>4
<1>14. QED BY <1>1, <1>9, <1>12, <1>13, Zenon

\* What is known of the mappings behind is known with this one.
LEMMA KnownNext ==
  ASSUME CliqueInv, NEW i \in Bits, i = clique.at, ~clique.over,
         NEW r \in States, r.table = clique.table,
         Fails(Asked(i), r) \/ Succeeds(Asked(i), r),
         NEW then \in States, then.max = r.max, then.table = [r.table EXCEPT ![i] = r.max]
  PROVE  Known(i - 1, then)
<1>1. GraphOK /\ Known(i, clique) /\ clique.max \in Nat /\ r.max \in Nat
  BY DEF CliqueInv, States
<1>2. PICK call : call = Asked(i)
  OBVIOUS
<1>3. /\ InTurn(i, call) /\ call.state = [clique EXCEPT !.found = FALSE]
      /\ call.record = {i} /\ Candidates(call) = {j \in Bits : j > i /\ {i, j} \in edges}
  BY <1>2, AskedIs
<1>4. call.state.max = clique.max
  BY <1>3 DEF CliqueInv, States
<1>5. r.max >= clique.max
  BY <1>1, <1>2, <1>4 DEF Fails, SameBest, Succeeds
<1>6. ASSUME NEW S \in Later(i - 1) PROVE Cardinality(S) <= r.max
  <2>1. S \in Cliques /\ S \in SUBSET Bits /\ \A k \in S : k > i - 1
    BY DEF Later, Cliques
  <2>2. Cardinality(S) \in Nat
    BY <1>1, <2>1, MappingsAreCounted
  <2>3. CASE i \notin S
    <3>1. S \in Later(i)
      BY <2>1, <2>3 DEF Later, Bits
    <3>2. Cardinality(S) <= clique.max
      BY <1>1, <3>1 DEF Known
    <3>3. QED BY <1>1, <1>5, <2>2, <3>2
  <2>4. CASE i \in S
    <3>1. S \ {i} \in Later(i)
      <4>1. S \ {i} \in Cliques
        BY <2>1, PartOfClique
      <4>2. \A k \in S \ {i} : k > i
        BY <2>1 DEF Bits
      <4>3. QED BY <4>1, <4>2 DEF Later
    <3>2. CASE Succeeds(call, r)
      <4>1. Cardinality(S \ {i}) <= clique.max /\ Cardinality(S \ {i}) = Cardinality(S) - 1
        BY <1>1, <2>1, <2>4, <3>1, MappingsAreCounted DEF Known
      <4>2. r.max = clique.max + 1
        BY <1>4, <3>2 DEF Succeeds
      <4>3. QED BY <1>1, <2>2, <4>1, <4>2
    <3>3. CASE Fails(call, r)
      <4>1. NoBetter(call) /\ r.max = clique.max
        BY <1>4, <3>3 DEF Fails, SameBest
      <4>2. S \subseteq {i} \cup Candidates(call)
        <5>1. ASSUME NEW k \in S, k # i PROVE k \in Candidates(call)
          <6>1. k \in S \ {i} /\ k \in Bits
            BY <2>1, <5>1
          <6>2. k > i
            BY <3>1, <6>1 DEF Later
          <6>3. {i, k} \in edges
            BY <2>1, <2>4, <5>1 DEF Cliques
          <6>4. QED BY <1>3, <6>1, <6>2, <6>3
        <5>2. QED BY <5>1
      <4>3. S \in Open(call)
        BY <1>3, <2>1, <2>4, <4>2 DEF Open
      <4>4. QED BY <1>4, <4>1, <4>3 DEF NoBetter
    <3>4. QED BY <1>2, <3>2, <3>3
  <2>5. QED BY <2>3, <2>4
<1>7. ASSUME NEW j \in Bits, j > i - 1, NEW S \in Later(j - 1) PROVE Cardinality(S) <= then.table[j]
  <2>1. r.table \in [Bits -> Nat]
    BY DEF States
  <2>2. CASE j = i
    BY <1>6, <1>7, <2>1, <2>2
  <2>3. CASE j # i
    <3>1. then.table[j] = clique.table[j]
      BY <2>1, <2>3
    <3>2. j > i
      BY <1>7, <2>3 DEF Bits
    <3>3. QED BY <1>1, <1>7, <3>1, <3>2 DEF Known
  <2>4. QED BY <2>2, <2>3
<1>8. QED BY <1>6, <1>7 DEF Known

LEMMA TurnKeeps ==
  ASSUME CliqueInv, Turn
  PROVE  CliqueInv'
<1>1. PICK i : i = clique.at
  OBVIOUS
<1>2. GraphOK /\ clique \in States /\ clique.at \in -1 .. size - 1 /\ size \in Nat
  BY DEF CliqueInv, GraphOK
<1>3. i \in Bits /\ ~clique.over
  BY <1>1, <1>2 DEF Turn, Bits
<1>4. PICK call : call = Asked(i)
  OBVIOUS
<1>5. /\ InTurn(i, call) /\ call.state = [clique EXCEPT !.found = FALSE]
      /\ call.record = {i} /\ Candidates(call) = {j \in Bits : j > i /\ {i, j} \in edges}
  BY <1>1, <1>3, <1>4, AskedIs
<1>6. /\ call.state.max = clique.max /\ call.state.clique = clique.clique
      /\ call.state.table = clique.table /\ call.state.iterations = clique.iterations
      /\ call.state.at = clique.at /\ call.state.over = clique.over
  BY <1>2, <1>5 DEF States
<1>7. PICK r : r = Clique(Scan[size], call)
  OBVIOUS
<1>8. Right(call, r)
  <2>1. size \in 0 .. size
    BY <1>2
  <2>2. PICK scan \in [Calls -> States] : scan = Scan[size]
    BY <1>2, <2>1, ScanIs
  <2>3. ScanRight(i, scan, size)
    BY <1>2, <1>3, <2>1, <2>2, ScansRight
  <2>4. ASSUME NEW loop \in Calls PROVE Cardinality(Candidates(loop)) <= size
    <3>1. Candidates(loop) \in SUBSET Bits /\ Bits \in SUBSET Bits
      BY DEF Candidates
    <3>2. Cardinality(Bits) = size
      BY <1>2, FS_Interval DEF Bits
    <3>3. QED BY <1>2, <3>1, <3>2, MappingsAreCounted
  <2>5. \A loop \in Calls :
          /\ InTurn(i, loop)
          /\ Candidates(loop) = Candidates(call) /\ Candidates(loop) # {}
          => Right(loop, scan[loop])
    BY <2>3, <2>4 DEF ScanRight
  <2>6. QED BY <1>2, <1>3, <1>5, <1>7, <2>2, <2>5, CliqueRight
<1>9. /\ r \in States /\ r.table = clique.table /\ r.max \in Nat /\ r.iterations \in Nat
      /\ r.at = clique.at
  <2>1. r \in States /\ Same(call.state, r)
    BY <1>8 DEF Right
  <2>2. QED BY <1>6, <2>1 DEF Same, States
<1>10. clique' = [r EXCEPT !.table[i] = r.max, !.at = i - 1,
                    !.over = r.max = upperBound \/ r.iterations > patience]
  BY <1>1, <1>4, <1>7 DEF Turn, Asked
<1>11. PICK over \in BOOLEAN : over = (r.max = upperBound \/ r.iterations > patience)
  OBVIOUS
<1>12. clique' = [r EXCEPT !.table[i] = r.max, !.at = i - 1, !.over = over]
  BY <1>10, <1>11
<1>13. /\ clique'.max = r.max /\ clique'.clique = r.clique /\ clique'.iterations = r.iterations
       /\ clique'.at = i - 1 /\ clique'.over = over /\ clique'.table = [r.table EXCEPT ![i] = r.max]
  BY <1>9, <1>12 DEF States
<1>14. clique' \in States
  <2>1. PICK t : t = [r.table EXCEPT ![i] = r.max]
    OBVIOUS
  <2>2. t \in [Bits -> Nat]
    BY <1>9, <2>1 DEF States
  <2>3. clique' = [r EXCEPT !.table = t, !.at = i - 1, !.over = over]
    BY <1>12, <2>1
  <2>4. i - 1 \in Int
    BY <1>3 DEF Bits
  <2>5. QED BY <1>9, <2>2, <2>3, <2>4 DEF States
<1>15. /\ size' = size /\ edges' = edges /\ patience' = patience /\ upperBound' = upperBound
       /\ Bits' = Bits
  BY DEF Turn, Bits
<1>16. upperBound \in Nat \ {0} /\ clique.max \in Nat /\ clique.max < upperBound
  BY <1>2, <1>3 DEF CliqueInv, GraphOK, States
<1>17. r.max = clique.max \/ r.max = clique.max + 1
  BY <1>6, <1>8 DEF Right, Fails, Succeeds, RunsOut, SameBest
<1>18. r.max <= upperBound
  BY <1>16, <1>17
<1>19. IsBest(r)
  <2>1. CASE Succeeds(call, r)
    BY <2>1 DEF Succeeds
  <2>2. CASE clique.at < size - 1 /\ SameBest(call.state, r)
    <3>1. IsBest(clique)
      BY <2>2 DEF CliqueInv
    <3>2. r.max = clique.max /\ r.clique = clique.clique
      BY <1>6, <2>2 DEF SameBest
    <3>3. QED BY <3>1, <3>2 DEF IsBest
  <2>3. CASE clique.at = size - 1
    <3>1. Candidates(call) = {}
      BY <1>1, <1>2, <1>5, <2>3 DEF Bits
    <3>2. ~Fails(call, r)
      <4>1. call.record \in Open(call)
        BY <1>2, <1>3, <1>5, TakenIs
      <4>2. Cardinality(call.record) = 1
        BY <1>5, FS_Singleton
      <4>3. clique.max = 0
        BY <2>3 DEF CliqueInv
      <4>4. QED BY <1>6, <4>1, <4>2, <4>3 DEF Fails, NoBetter
    <3>3. QED BY <1>8, <2>1, <3>1, <3>2 DEF Right, RunsOut
  <2>4. clique.at < size - 1 \/ clique.at = size - 1
    BY <1>2
  <2>5. QED BY <1>8, <2>1, <2>2, <2>3, <2>4 DEF Right, Fails, RunsOut
<1>20. IsBest(clique')
  BY <1>13, <1>19 DEF IsBest
<1>21. ASSUME ~over PROVE r.max < upperBound /\ Known(i - 1, clique')
  <2>1. ~(r.iterations > patience) /\ r.max # upperBound
    BY <1>11, <1>21
  <2>2. Fails(call, r) \/ Succeeds(call, r)
    BY <1>8, <2>1 DEF Right, RunsOut
  <2>3. Known(i - 1, clique')
    <3>1. PICK then \in States : then = clique'
      BY <1>14
    <3>2. then.max = r.max /\ then.table = [r.table EXCEPT ![i] = r.max]
      BY <1>13, <3>1
    <3>3. Known(i - 1, then)
      BY <1>1, <1>3, <1>4, <1>9, <2>2, <3>2, KnownNext
    <3>4. QED BY <3>1, <3>3, Zenon
  <2>4. r.max < upperBound
    BY <1>9, <1>16, <1>18, <2>1
  <2>5. QED BY <2>3, <2>4
<1>22. GraphOK'
  BY <1>2, <1>15 DEF GraphOK
<1>23. clique'.at \in -1 .. size' - 1 /\ clique'.at # size' - 1
  BY <1>1, <1>2, <1>3, <1>13, <1>15 DEF Bits
<1>24. (clique \in States)'
  BY <1>14, <1>15 DEF States
<1>25. IsBest(clique)'
  BY <1>15, <1>20 DEF IsBest, IsClique, GetNumberBitsSet
<1>26. ~clique'.over => clique'.max < upperBound' /\ Known(clique.at, clique)'
  <2>1. SUFFICES ASSUME ~over PROVE r.max < upperBound /\ Known(clique.at, clique)'
    BY <1>13, <1>15
  <2>2. r.max < upperBound /\ Known(i - 1, clique')
    BY <1>21, <2>1
  <2>3. Known(clique.at, clique)'
    BY <1>13, <1>15, <2>2 DEF Known, Later, Cliques
  <2>4. QED BY <2>2, <2>3
<1>27. clique'.over => clique'.max = upperBound' \/ clique'.iterations > patience'
  BY <1>11, <1>13, <1>15
<1>28. clique'.max <= upperBound'
  BY <1>13, <1>15, <1>18
<1>29. QED BY <1>22, <1>23, <1>24, <1>25, <1>26, <1>27, <1>28 DEF CliqueInv

LEMMA NothingKeeps ==
  ASSUME CliqueInv, UNCHANGED cliqueVars
  PROVE  CliqueInv'
<1>1. /\ size' = size /\ edges' = edges /\ patience' = patience /\ upperBound' = upperBound
      /\ clique' = clique
  BY DEF cliqueVars
<1>2. Bits' = Bits
  BY <1>1 DEF Bits
<1>3. GraphOK' /\ States' = States /\ (Known(clique.at, clique)' <=> Known(clique.at, clique))
      /\ (IsBest(clique)' <=> IsBest(clique))
  <2>1. GraphOK'
    BY <1>1, <1>2 DEF CliqueInv, GraphOK
  <2>2. States' = States
    BY <1>2 DEF States
  <2>3. Known(clique.at, clique)' <=> Known(clique.at, clique)
    BY <1>1, <1>2 DEF Known, Later, Cliques
  <2>4. IsBest(clique)' <=> IsBest(clique)
    BY <1>1, <1>2 DEF IsBest, IsClique, GetNumberBitsSet
  <2>5. QED BY <2>1, <2>2, <2>3, <2>4
<1>4. QED BY <1>1, <1>3 DEF CliqueInv

\* The largest clique, up to the bound.
LEMMA LargestIs ==
  ASSUME CliqueInv, Done
  PROVE  FindsLargestClique
<1>1. /\ GraphOK /\ clique \in States /\ clique.at \in -1 .. size - 1 /\ size \in Nat
      /\ upperBound \in Nat \ {0} /\ clique.max \in Nat /\ clique.max <= upperBound
      /\ clique.iterations \in Nat /\ patience \in Nat
  BY DEF CliqueInv, GraphOK, States
<1>2. IsBest(clique)
  <2>1. CASE clique.at < size - 1 \/ size = 0
    BY <2>1 DEF CliqueInv
  <2>2. CASE ~(clique.at < size - 1) /\ size # 0
    <3>1. clique.at = size - 1 /\ ~(clique.at < 0)
      BY <1>1, <2>2
    <3>2. QED BY <3>1 DEF Done, CliqueInv
  <2>3. QED BY <2>1, <2>2
<1>3. PICK best \in Nat : best = clique.max
  BY <1>1
<1>4. PICK R \in Cliques : Cardinality(R) = best
  <2>1. PICK q \in [Bits -> BOOLEAN] : q = clique.clique
    BY <1>1 DEF States
  <2>2. PICK R : R = {i \in DOMAIN q : q[i]}
    OBVIOUS
  <2>3. Cardinality(R) = best
    BY <1>2, <1>3, <2>1, <2>2 DEF IsBest, GetNumberBitsSet
  <2>4. R \in Cliques
    BY <1>2, <2>1, <2>2 DEF IsBest, IsClique, Cliques
  <2>5. QED BY <2>3, <2>4
<1>5. PICK sizes : sizes = {Cardinality(S) : S \in Cliques}
  OBVIOUS
<1>6. sizes \in SUBSET (0 .. size) /\ best \in sizes
  <2>1. ASSUME NEW S \in Cliques PROVE Cardinality(S) \in 0 .. size
    <3>1. S \in SUBSET Bits /\ Bits \in SUBSET Bits
      BY DEF Cliques
    <3>2. Cardinality(Bits) = size
      BY <1>1, FS_Interval DEF Bits
    <3>3. Cardinality(S) <= Cardinality(Bits) /\ Cardinality(S) \in Nat
      BY <1>1, <3>1, MappingsAreCounted
    <3>4. QED BY <1>1, <3>2, <3>3
  <2>2. QED BY <1>4, <1>5, <2>1
<1>7. PICK largest \in sizes : \A y \in sizes : largest >= y
  <2>1. CASE sizes \ {0} = {}
    <3>1. sizes = {0}
      BY <1>6, <2>1
    <3>2. QED BY <3>1
  <2>2. CASE sizes \ {0} # {}
    <3>1. PICK P : P = sizes \ {0}
      OBVIOUS
    <3>2. P \in SUBSET (1 .. size) /\ P # {}
      BY <1>6, <2>2, <3>1
    <3>3. PICK m \in P : \A y \in P : m >= y
      BY <1>1, <3>2, MaxIs
    <3>4. \A y \in sizes : m >= y
      BY <1>6, <3>1, <3>2, <3>3
    <3>5. QED BY <3>1, <3>4
  <2>3. QED BY <2>1, <2>2
<1>8. Largest = largest
  <2>1. Largest = CHOOSE x \in sizes : \A y \in sizes : x >= y
    BY <1>5 DEF Largest, Max
  <2>2. PICK x \in sizes : x = Largest /\ \A y \in sizes : x >= y
    BY <1>7, <2>1
  <2>3. x >= largest /\ largest >= x /\ x \in Nat /\ largest \in Nat
    BY <1>6, <1>7, <2>2
  <2>4. QED BY <2>2, <2>3
<1>9. largest \in Nat /\ largest >= best
  BY <1>6, <1>7
<1>10. ASSUME clique.iterations <= patience PROVE best = Min({Largest, upperBound})
  <2>1. PICK b \in Nat : b = upperBound
    BY <1>1
  <2>2. best = b \/ (best = largest /\ largest < b)
    <3>1. CASE clique.over
      <4>1. clique.max = upperBound \/ clique.iterations > patience
        BY <3>1 DEF CliqueInv
      <4>2. QED BY <1>1, <1>3, <1>10, <2>1, <4>1
    <3>2. CASE ~clique.over
      <4>1. clique.at = -1 /\ Known(-1, clique) /\ clique.max < upperBound
        BY <1>1, <3>2 DEF CliqueInv, Done
      <4>2. \A S \in Cliques : S \in Later(-1)
        BY DEF Later, Cliques, Bits
      <4>3. \A S \in Cliques : Cardinality(S) <= best
        BY <1>3, <4>1, <4>2 DEF Known
      <4>4. largest <= best
        BY <1>5, <4>3
      <4>5. QED BY <1>3, <1>9, <2>1, <4>1, <4>4
    <3>3. QED BY <3>1, <3>2
  <2>3. PICK two \in SUBSET Nat : two = {largest, b} /\ two # {}
    BY <1>9
  <2>4. Min(two) \in two /\ \A y \in two : Min(two) <= y
    BY <2>3, MinIs
  <2>5. Min(two) = best
    BY <1>9, <2>2, <2>3, <2>4
  <2>6. {Largest, upperBound} = two
    BY <1>8, <2>1, <2>3
  <2>7. QED BY <2>5, <2>6
<1>11. QED BY <1>2, <1>3, <1>10 DEF FindsLargestClique, IsBest

\* The search ends with a clique however soon its time is over, and with a
\* largest one, up to the bound, when it is not: for every graph of mappings,
\* every bound and every time (merge.cpp:567-673).
THEOREM SearchFindsLargest ==
  ASSUME CliqueAssumption
  PROVE  MaxCliqueSpec => []FindsLargestClique
<1>1. MaxCliqueInit => CliqueInv
  BY CliqueStarts
<1>2. CliqueInv /\ [Turn]_cliqueVars => CliqueInv'
  BY TurnKeeps, NothingKeeps
<1>3. CliqueInv => FindsLargestClique
  BY LargestIs DEF FindsLargestClique
<1>4. QED BY <1>1, <1>2, <1>3, PTL DEF MaxCliqueSpec
=============================================================================
