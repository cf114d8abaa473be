-------------------------------- MODULE Pool --------------------------------
(***************************************************************************)
(* Pool of common/memory.hpp: blocks of pages, each with room for a number *)
(* of elements, a bitmap of the ones in use, their count and the next      *)
(* block.  Elements never move.  Iterators are open while elements are     *)
(* allocated and removed, as in the passes that walk a graph they change.  *)
(***************************************************************************)
EXTENDS Integers, Sequences, FiniteSets, FiniteSetsExt

CONSTANTS PageSize, HeaderSize, ElemSize,   \* in bytes
          MaxBlocks, MaxAllocations, MaxHoles  \* bounds of the instance

ASSUME PoolAssumption ==
  /\ PageSize \in Nat \ {0} /\ HeaderSize \in Nat /\ ElemSize \in Nat \ {0}

VARIABLES
  blocks,      \* of each block the bitmap, as a set of units, and allocatedUnits
  iter,        \* the block and unit an iterator points at, or NoPosition
  seen,        \* history: what the iterator gave, in order
  lasting,     \* history: the elements that lived since the iterator began
  live,        \* the elements the program has, handed out and not removed
  allocations  \* how many elements were handed out since the last Clear

poolVars == <<blocks, iter, seen, lasting, live, allocations>>

RoundUpDiv(n, d) == (n + d - 1) \div d
Pages(n) == (n - 1) \div PageSize + 1

-----------------------------------------------------------------------------
(* CalculatePoolInfo: as many elements as fit the pages that eight need.    *)

minAmount == 8
PagesFor(units) == Pages(units * ElemSize + HeaderSize + RoundUpDiv(units, 8))
pagesPerBlock == PagesFor(minAmount)

unitsPerPageBlock ==
  LET upTo[n \in minAmount .. PageSize * pagesPerBlock] ==
        IF PagesFor(n + 1) # pagesPerBlock THEN n ELSE upTo[n + 1]
  IN  upTo[minAmount]

Units == 0 .. unitsPerPageBlock - 1
BlockNumbers == 1 .. Len(blocks)
NewBlock == [bitmap |-> {}, allocatedUnits |-> 0]

NoPosition == <<0, 0>>
Positions == (BlockNumbers \X Units) \cup {NoPosition}

-----------------------------------------------------------------------------
\* The first block that is not full; another one is mapped behind the last.
BlockToUse ==
  LET from[b \in 1 .. Len(blocks) + 1] ==
        IF b > Len(blocks) \/ blocks[b].allocatedUnits # unitsPerPageBlock
        THEN b ELSE from[b + 1]
  IN  from[1]

FreeUnit(b) ==
  IF b > Len(blocks) THEN 0 ELSE Min(Units \ blocks[b].bitmap)

Mapped(b) == IF b > Len(blocks) THEN Append(blocks, NewBlock) ELSE blocks

Alloc ==
  LET b == BlockToUse
      u == FreeUnit(b)
  IN  /\ b <= MaxBlocks
      /\ allocations < MaxAllocations
      /\ blocks' = [Mapped(b) EXCEPT ![b].bitmap = @ \cup {u}, ![b].allocatedUnits = @ + 1]
      /\ live' = live \cup {<<b, u>>}
      /\ allocations' = allocations + 1
      /\ UNCHANGED <<iter, seen, lasting>>

\* Mutated: only the bit is cleared.
Remove_KeepsCount(e) ==
  /\ blocks' = [blocks EXCEPT ![e[1]].bitmap = @ \ {e[2]}]
  /\ live' = live \ {e}
  /\ lasting' = lasting \ {e}
  /\ UNCHANGED <<iter, seen, allocations>>

\* The element's page is taken for its block, so a block is one page here.
Remove(e) ==
  /\ pagesPerBlock = 1
  /\ blocks' = [blocks EXCEPT ![e[1]].bitmap = @ \ {e[2]}, ![e[1]].allocatedUnits = @ - 1]
  /\ live' = live \ {e}
  /\ lasting' = lasting \ {e}
  /\ UNCHANGED <<iter, seen, allocations>>

-----------------------------------------------------------------------------
(* Iteration.  A position past the last block is NoPosition.                *)

IsValid(p) == p[2] \in blocks[p[1]].bitmap

Advance(p) ==
  IF p[2] + 1 < unitsPerPageBlock THEN <<p[1], p[2] + 1>>
  ELSE IF p[1] < Len(blocks) THEN <<p[1] + 1, 0>>
  ELSE NoPosition

\* The position itself when it is in use, else the next one that is.
ValidFrom(p) ==
  LET next[q \in Positions] ==
        IF q = NoPosition \/ IsValid(q) THEN q ELSE next[Advance(q)]
  IN  next[p]

Begin == IF blocks = <<>> THEN NoPosition ELSE ValidFrom(<<1, 0>>)

\* What a loop over the pool gives, in order: what Copy copies and
\* GetFromAllocated counts.
Elements ==
  LET from[p \in Positions] ==
        IF p = NoPosition THEN <<>> ELSE <<p>> \o from[ValidFrom(Advance(p))]
  IN  from[Begin]

Size ==
  LET from[b \in 1 .. Len(blocks) + 1] ==
        IF b > Len(blocks) THEN 0 ELSE blocks[b].allocatedUnits + from[b + 1]
  IN  from[1]

StartIterating ==
  /\ iter = NoPosition
  /\ iter' = Begin
  /\ seen' = IF Begin = NoPosition THEN <<>> ELSE <<Begin>>
  /\ lasting' = live
  /\ UNCHANGED <<blocks, live, allocations>>

\* The loop may have removed the element it is at.
Step ==
  /\ iter # NoPosition
  /\ iter' = ValidFrom(Advance(iter))
  /\ seen' = IF iter' = NoPosition THEN seen ELSE Append(seen, iter')
  /\ UNCHANGED <<blocks, lasting, live, allocations>>

\* The pages are given back or cleared; no loop is open in a caller.
ClearPool(freeMemory) ==
  /\ iter = NoPosition
  /\ blocks' = IF freeMemory THEN <<>> ELSE [b \in BlockNumbers |-> NewBlock]
  /\ live' = {}
  /\ lasting' = {}
  /\ seen' = <<>>
  /\ allocations' = 0
  /\ UNCHANGED iter

-----------------------------------------------------------------------------
PoolInit ==
  /\ blocks = <<>>
  /\ iter = NoPosition
  /\ seen = <<>>
  /\ lasting = {}
  /\ live = {}
  /\ allocations = 0

Holes == allocations - Cardinality(live)

PoolNext ==
  \/ Alloc
  \/ \E e \in live : Holes < MaxHoles /\ Remove(e)
  \/ StartIterating \/ Step
  \/ \E freeMemory \in BOOLEAN : ClearPool(freeMemory)

PoolSpec == PoolInit /\ [][PoolNext]_poolVars

IsSetOf(s, S) == Len(s) = Cardinality(S) /\ {s[i] : i \in DOMAIN s} = S

\* The pool counts and iterates exactly the elements handed out and not
\* removed, and a loop meets every element that outlives it once, whatever is
\* allocated and removed meanwhile (memory.hpp:1578-1712).
IteratesWhatLives ==
  /\ IsSetOf(Elements, live)
  /\ Size = Cardinality(live)
  /\ iter = NoPosition => lasting \subseteq {seen[i] : i \in DOMAIN seen}
  /\ \A i, j \in DOMAIN seen : i < j => seen[i] # seen[j]

=============================================================================
