-------------------------------- MODULE Arena --------------------------------
(***************************************************************************)
(* The arenas of common/memory.cpp as the compiler uses them.  A function  *)
(* gets the arenas it leaves results in from its caller, takes another one *)
(* for its temporary data and gives back on return whatever it pushed      *)
(* there; a few arenas are taken by one function alone.  GrowableArray     *)
(* grows in place while it is last in its arena and moves otherwise.       *)
(*                                                                         *)
(* Addresses count elements from 1; a cell of memory that is not in use    *)
(* holds Poison.                                                           *)
(***************************************************************************)
EXTENDS Integers, Sequences, FiniteSets, FiniteSetsExt

CONSTANTS ArenaSize,                 \* elements per arena
          SingleUseArenas,           \* how many there are
          MaxFrames, MaxArrays       \* bounds of the instance

ASSUME ArenaAssumption == {ArenaSize, SingleUseArenas, MaxArrays} \subseteq Nat

VARIABLES
  used,     \* of each arena
  memory,   \* of each arena
  frames,   \* the functions being executed, the current one last
  arrays    \* the growable arrays whose owners still run

arenaVars == <<used, memory, frames, arrays>>

ContextArenas == {0, 1}
SingleUse == 2 .. SingleUseArenas + 1
Arenas == ContextArenas \cup SingleUse
NoArena == -1
Poison == <<0, 0>>

-----------------------------------------------------------------------------
(* The choice of an arena.                                                  *)

GetArena(diff) == IF diff # 0 THEN 0 ELSE 1

\* Mutated: only the first of the two arenas is avoided.
GetArena2_First(diff, diff2) == GetArena(diff)

GetArena2(diff, diff2) ==
  IF diff = diff2 \/ diff2 = NoArena THEN GetArena(diff)
  ELSE IF diff = NoArena THEN GetArena(diff2)
  ELSE IF 0 \notin {diff, diff2} THEN 0
  ELSE IF 1 \notin {diff, diff2} THEN 1
  ELSE NoArena

Frame(temp, outs, mark) == [temp |-> temp, outs |-> outs, mark |-> mark, single |-> {}]

Current == frames[Len(frames)]

\* What a function may push to, and pass on to the functions it calls.
Writable == {Current.temp} \cup Current.outs \cup Current.single

\* The function until whose return an array in an arena is meant to live: one of
\* the callers when it is a result.
Owner(arena) ==
  LET last == IF arena \in Current.outs THEN Len(frames) - 1 ELSE Len(frames)
  IN  Max({f \in 1 .. last : arena \in {frames[f].temp} \cup frames[f].single})

Call(diff, diff2) ==
  /\ Len(frames) < MaxFrames
  /\ {diff, diff2} \subseteq Writable \cup {NoArena}
  /\ LET temp == GetArena2(diff, diff2)
     IN  /\ temp # NoArena
         /\ frames' = Append(frames, Frame(temp, {diff, diff2} \ {NoArena}, used[temp]))
  /\ UNCHANGED <<used, memory, arrays>>

\* The free arenas are tried in order.
GetSingleUseArena ==
  LET taken == UNION {frames[f].single : f \in DOMAIN frames}
  IN  /\ SingleUse \ taken # {}
      /\ frames' = [frames EXCEPT ![Len(frames)].single = @ \cup {Min(SingleUse \ taken)}]
      /\ UNCHANGED <<used, memory, arrays>>

\* PopMark of the region and FreeSingleUseArena of what was taken.
Return ==
  /\ Len(frames) > 1
  /\ used' = [a \in Arenas |-> IF a = Current.temp THEN Current.mark
                               ELSE IF a \in Current.single THEN 0 ELSE used[a]]
  /\ memory' = [a \in Arenas |-> [i \in 1 .. ArenaSize |->
                  IF i > used'[a] THEN Poison ELSE memory[a][i]]]
  /\ arrays' = {r \in arrays : r.owner < Len(frames)}
  /\ frames' = SubSeq(frames, 1, Len(frames) - 1)

-----------------------------------------------------------------------------
(* Growable arrays; Cell(r, i) is what its owner stored at place i.         *)

Cell(r, i) == <<r.id, i>>

Fits(arena, n) == used[arena] + n <= ArenaSize

\* Cells of an arena from an address on are written, the others kept.
Written(arena, from, cells) ==
  [memory EXCEPT ![arena] = [i \in 1 .. ArenaSize |->
     IF i \in from .. from + Len(cells) - 1 THEN cells[i - from + 1] ELSE @[i]]]

NewId == CHOOSE id \in 1 .. MaxArrays : \A r \in arrays : r.id # id

StartGrowableArray(arena) ==
  /\ Cardinality(arrays) < MaxArrays
  /\ Fits(arena, 1)
  /\ used' = [used EXCEPT ![arena] = @ + 1]
  /\ arrays' = arrays \cup {[id |-> NewId, arena |-> arena, owner |-> Owner(arena),
                             data |-> used[arena] + 1, size |-> 0, capacity |-> 1]}
  /\ UNCHANGED <<memory, frames>>

Replace(r, s) == arrays' = (arrays \ {r}) \cup {s}

Stored(r) == [i \in 1 .. r.size |-> memory[r.arena][r.data + i - 1]]

PushWithin(r) ==
  /\ r.size < r.capacity
  /\ memory' = Written(r.arena, r.data + r.size, <<Cell(r, r.size + 1)>>)
  /\ Replace(r, [r EXCEPT !.size = @ + 1])
  /\ UNCHANGED used

IsLast(r) == r.data + r.capacity = used[r.arena] + 1

PushInPlace(r) ==
  /\ r.size = r.capacity
  /\ IsLast(r)
  /\ Fits(r.arena, 1)
  /\ memory' = Written(r.arena, r.data + r.size, <<Cell(r, r.size + 1)>>)
  /\ Replace(r, [r EXCEPT !.size = @ + 1, !.capacity = @ + 1])
  /\ used' = [used EXCEPT ![r.arena] = @ + 1]

PushMoving(r) ==
  /\ r.size = r.capacity
  /\ ~IsLast(r)
  /\ Fits(r.arena, 2 * r.capacity)
  /\ memory' = Written(r.arena, used[r.arena] + 1, Append(Stored(r), Cell(r, r.size + 1)))
  /\ Replace(r, [r EXCEPT !.data = used[r.arena] + 1, !.size = @ + 1, !.capacity = 2 * @])
  /\ used' = [used EXCEPT ![r.arena] = @ + 2 * r.capacity]

\* A function pushes to the arrays it can still reach through its arenas.
PushElem(r) ==
  /\ r.arena \in Writable
  /\ r.owner = Owner(r.arena)
  /\ PushWithin(r) \/ PushInPlace(r) \/ PushMoving(r)
  /\ UNCHANGED frames

-----------------------------------------------------------------------------
ArenaInit ==
  /\ used = [a \in Arenas |-> 0]
  /\ memory = [a \in Arenas |-> [i \in 1 .. ArenaSize |-> Poison]]
  /\ frames = <<Frame(0, {}, 0)>>
  /\ arrays = {}

ArenaNext ==
  \/ \E diff, diff2 \in Arenas \cup {NoArena} : Call(diff, diff2)
  \/ GetSingleUseArena
  \/ Return
  \/ \E arena \in Writable : StartGrowableArray(arena)
  \/ \E r \in arrays : PushElem(r)

ArenaSpec == ArenaInit /\ [][ArenaNext]_arenaVars

\* What a function was given or left with stays as it was written until the
\* function that owns the region returns, whatever the functions below it
\* take, push, move and give back (memory.cpp:131, :305, memory.hpp:232).
LiveDataIntact ==
  \A r \in arrays :
    /\ r.data + r.capacity - 1 <= used[r.arena]
    /\ \A i \in 1 .. r.size : memory[r.arena][r.data + i - 1] = Cell(r, i)
=============================================================================
