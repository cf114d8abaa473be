------------------------------ MODULE MaxClique ------------------------------
(***************************************************************************)
(* The search of compiler/merge.cpp for the largest clique of the graph of *)
(* mappings that agree, over the BitArray of common/memory.cpp.  The       *)
(* search stops at an upper bound and when its time is over, here after    *)
(* patience calls.  A bit array is the sequence of its bits.               *)
(***************************************************************************)
EXTENDS Integers, Sequences, FiniteSets, FiniteSetsExt

CONSTANTS Sizes,       \* numbers of mappings
          Bounds,      \* sizes of clique that are enough
          Patience     \* numbers of calls until the time is over

ASSUME CliqueAssumption ==
  Sizes \in SUBSET Nat /\ Bounds \in SUBSET (Nat \ {0}) /\ Patience \in SUBSET Nat

VARIABLES
  size,        \* the number of mappings
  edges,       \* the pairs of them that agree
  upperBound, patience,
  clique       \* the state of the search

cliqueVars == <<size, edges, upperBound, patience, clique>>

Bits == 0 .. size - 1

-----------------------------------------------------------------------------
(* BitArray.                                                                *)

Init_(n) == [i \in 0 .. n - 1 |-> FALSE]

\* Whole bytes are filled, up to a multiple of 32 bits.
Fill(array, value) == [i \in DOMAIN array |-> value]

Set(array, i, value) == [array EXCEPT ![i] = value]

AndWith(array, other) == [i \in DOMAIN array |-> array[i] /\ other[i]]

GetNumberBitsSet(array) == Cardinality({i \in DOMAIN array : array[i]})

\* Zero also when there is none.
FirstBitSetIndex(array, start) ==
  LET found == {i \in DOMAIN array : i >= start /\ array[i]}
  IN  IF found = {} THEN 0 ELSE Min(found)

Neighbors == [i \in Bits |-> [j \in Bits |-> {i, j} \in edges]]

-----------------------------------------------------------------------------
(* The search.  state.clique is the best one so far.                        *)

States ==
  [at : Int, over : BOOLEAN, max : Nat, iterations : Nat, found : BOOLEAN,
   table : [Bits -> Nat], clique : [Bits -> BOOLEAN]]

\* What Clique and the loop in it go on with: the mappings taken are the record,
\* those that may be added are valid.
Calls == [state : States, valid : [Bits -> BOOLEAN], index : Bits, record : SUBSET Bits]

Found(state, record) ==
  IF Cardinality(record) > state.max
  THEN [state EXCEPT !.max = Cardinality(record), !.found = TRUE,
                     !.clique = [i \in Bits |-> i \in record]]
  ELSE state

\* scan is the loop, for fewer candidates.
Clique(scan, call) ==
  LET counted == [call.state EXCEPT !.iterations = @ + 1]
  IN  IF GetNumberBitsSet(call.valid) = 0 THEN Found(counted, call.record)
      ELSE IF counted.iterations > patience THEN [counted EXCEPT !.found = TRUE]
      ELSE scan[[call EXCEPT !.state = counted]]

\* Mutated: the search ends one candidate too early.
TooFew_Strict(loop) ==
  Cardinality(loop.record) + GetNumberBitsSet(loop.valid) <= loop.state.max + 1

\* Not enough candidates are left to do better.
TooFew(loop) ==
  Cardinality(loop.record) + GetNumberBitsSet(loop.valid) <= loop.state.max

\* A turn of the loop: a candidate is added, then left out.
Candidate(scan, loop) ==
  LET i == FirstBitSetIndex(loop.valid, loop.index)
      rest == Set(loop.valid, i, FALSE)
      tried == Clique(scan, [state |-> loop.state, valid |-> AndWith(rest, Neighbors[i]),
                             index |-> i, record |-> loop.record \cup {i}])
  IN  IF \/ GetNumberBitsSet(loop.valid) = 0
         \/ TooFew(loop)
         \/ Cardinality(loop.record) + loop.state.table[i] <= loop.state.max
      THEN loop.state
      ELSE IF tried.found THEN tried
      ELSE scan[[state |-> tried, valid |-> rest, index |-> i, record |-> loop.record]]

\* The loop over at most num candidates; each leaves fewer.
Scan[num \in 0 .. size] ==
  [loop \in Calls |-> IF num = 0 THEN loop.state ELSE Candidate(Scan[num - 1], loop)]

CliqueStart ==
  [at |-> size - 1, over |-> FALSE, max |-> 0, iterations |-> 0, found |-> FALSE,
   table |-> [i \in Bits |-> 0], clique |-> Fill(Init_(size), TRUE)]

MaxCliqueInit ==
  /\ size \in Sizes
  /\ edges \in SUBSET {{i, j} : i, j \in Bits}
  /\ \A e \in edges : Cardinality(e) = 2
  /\ upperBound \in Bounds
  /\ patience \in Patience
  /\ clique = CliqueStart

\* A turn of the loop of MaxClique, from the last mapping to the first.
Turn ==
  LET i == clique.at
      valid == [j \in Bits |-> j >= i]
      tried == Clique(Scan[size], [state |-> [clique EXCEPT !.found = FALSE],
                                   valid |-> AndWith(valid, Neighbors[i]),
                                   index |-> i, record |-> {i}])
  IN  /\ i >= 0
      /\ ~clique.over
      /\ clique' = [tried EXCEPT !.table[i] = tried.max, !.at = i - 1,
                      !.over = tried.max = upperBound \/ tried.iterations > patience]
      /\ UNCHANGED <<size, edges, upperBound, patience>>

MaxCliqueSpec == MaxCliqueInit /\ [][Turn]_cliqueVars

Done == clique.at < 0 \/ clique.over

IsClique(array) ==
  \A i, j \in Bits : i # j /\ array[i] /\ array[j] => {i, j} \in edges

Cliques == {S \in SUBSET Bits : \A i, j \in S : i # j => {i, j} \in edges}
Largest == Max({Cardinality(S) : S \in Cliques})

\* The result is a clique however soon the time is over, and a largest one, up
\* to the bound, when it is not (merge.cpp:567-673).
FindsLargestClique ==
  Done =>
    /\ IsClique(clique.clique)
    /\ GetNumberBitsSet(clique.clique) = clique.max
    /\ clique.iterations <= patience => clique.max = Min({Largest, upperBound})
=============================================================================
