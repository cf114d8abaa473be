------------------------------ MODULE Dictionary ------------------------------
(***************************************************************************)
(* What the maps of common/memory.hpp promise: a function from keys to     *)
(* data that is iterated in the order in which its keys first came, and    *)
(* whose reads tell what was stored last.  Hashmap and TrieMap are shown   *)
(* to implement it; Set and TrieSet are the maps with data nobody reads.   *)
(***************************************************************************)
EXTENDS Integers, Sequences

CONSTANTS Keys, Values,
          Zero         \* the value of data that was allocated and not written

VARIABLES
  entries,   \* pairs of a key and its data, in the order of iteration
  told       \* what the last operation returned

dictVars == <<entries, told>>

\* What an operation on a key tells: data (nothing for a null pointer, and after
\* GetOrAllocate whether it was there), or whether the key existed; or all pairs.
Data(k, d) == <<"data", k, d>>
Existed(k, b) == <<"existed", k, b>>
Array(pairs) == <<"array", pairs>>

Has(k) == \E i \in DOMAIN entries : entries[i][1] = k
At(k) == CHOOSE i \in DOMAIN entries : entries[i][1] = k
Found(k) == IF Has(k) THEN <<entries[At(k)][2]>> ELSE <<>>

Add(k, v) == entries' = Append(entries, <<k, v>>)

Insert(k, v) ==
  /\ told' = Data(k, <<v>>)
  /\ IF Has(k) THEN entries' = [entries EXCEPT ![At(k)] = <<k, v>>] ELSE Add(k, v)

\* A key that is there keeps its data; what is told of it is up to the map.
InsertIfNotExist(k, v) ==
  IF Has(k) THEN UNCHANGED entries /\ told' \in {Data(k, <<>>), Data(k, Found(k))}
            ELSE Add(k, v) /\ told' = Data(k, <<v>>)

CheckOrInsert(k, v) ==
  /\ told' = Existed(k, Has(k))
  /\ IF Has(k) THEN UNCHANGED entries ELSE Add(k, v)

GetOrInsert(k, v) ==
  IF Has(k) THEN UNCHANGED entries /\ told' = Data(k, Found(k))
            ELSE Add(k, v) /\ told' = Data(k, <<v>>)

GetOrAllocate(k) ==
  IF Has(k) THEN UNCHANGED entries /\ told' = Data(k, Found(k) \o <<TRUE>>)
            ELSE Add(k, Zero) /\ told' = Data(k, <<Zero, FALSE>>)

Get(k) == told' = Data(k, Found(k)) /\ UNCHANGED entries

AsArray == told' = Array(entries) /\ UNCHANGED entries

Remove(k) ==
  /\ told' = Existed(k, Has(k))
  /\ IF Has(k) THEN entries' = SubSeq(entries, 1, At(k) - 1)
                                 \o SubSeq(entries, At(k) + 1, Len(entries))
               ELSE UNCHANGED entries

Clear == entries' = <<>> /\ told' = Array(<<>>)

DictInit == entries = <<>> /\ told = Array(<<>>)

DictNext ==
  \/ \E k \in Keys :
       \/ \E v \in Values : Insert(k, v) \/ InsertIfNotExist(k, v)
                              \/ CheckOrInsert(k, v) \/ GetOrInsert(k, v)
       \/ GetOrAllocate(k) \/ Get(k) \/ Remove(k)
  \/ AsArray \/ Clear

DictSpec == DictInit /\ [][DictNext]_dictVars
=============================================================================
