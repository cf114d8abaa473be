------------------------------- MODULE Hashmap -------------------------------
(***************************************************************************)
(* Hashmap of common/memory.hpp: a fixed array of pairs in the order of    *)
(* insertion, a bucket for each remainder of a hash and, apart from the    *)
(* pairs, the next pair of each chain.  A pointer to a pair is its number  *)
(* in the array, 0 the null pointer.  Set is this map with data 0.         *)
(***************************************************************************)
EXTENDS Integers, Sequences

CONSTANTS Keys, Values, Zero,
          NoPair,        \* what the array holds where nothing was written
          MaxElements    \* maxAmountOfElements of PushHashmap; a map for none is not written

ASSUME HashmapAssumption == MaxElements \in Nat \ {0}

VARIABLES
  hash,          \* Hash of each key; any function, fixed
  nodesUsed, buckets, next, data,
  told           \* what the last operation returned

hashmapVars == <<nodesUsed, buckets, next, data, told>>

\* What an operation on a key tells: data (nothing for a null pointer, and after
\* GetOrAllocate whether it was there), or whether the key existed; or all pairs.
Data(k, d) == <<"data", k, d>>
Existed(k, b) == <<"existed", k, b>>
Array(pairs) == <<"array", pairs>>

AlignNextPower2(n) ==
  LET up[m \in 1 .. 2 * n] == IF m >= n THEN m ELSE up[2 * m] IN up[1]

nodesAllocated == AlignNextPower2(MaxElements) * 2
Slots == 1 .. nodesAllocated

Empty == [b \in 0 .. nodesAllocated - 1 |-> 0]
NoNext == [i \in Slots |-> 0]

PushHashmap ==
  /\ nodesUsed = 0
  /\ buckets = Empty
  /\ next = NoNext
  /\ data = [i \in Slots |-> NoPair]
  /\ told = Array(<<>>)

Bucket(k) == hash[k] % nodesAllocated

\* Mutated: the first pair of the chain is taken for the key's.
Lookup_First(k) == buckets[Bucket(k)]

\* The pair of a key, found along the chain of its bucket.
Lookup(k) ==
  LET chain[i \in 0 .. nodesAllocated] ==
        IF i = 0 \/ data[i][1] = k THEN i ELSE chain[next[i]]
  IN  chain[buckets[Bucket(k)]]

\* The last pair of the chain of a bucket, 0 when there is none.
ChainEnd(b) ==
  LET last[i \in Slots] == IF next[i] = 0 THEN i ELSE last[next[i]]
  IN  IF buckets[b] = 0 THEN 0 ELSE last[buckets[b]]

\* A new pair goes behind the last one and to the end of its chain.
NewPair(k, v) ==
  /\ nodesUsed < nodesAllocated
  /\ nodesUsed' = nodesUsed + 1
  /\ data' = [data EXCEPT ![nodesUsed + 1] = <<k, v>>]
  /\ LET b == Bucket(k)
         end == ChainEnd(b)
     IN  IF end = 0
         THEN buckets' = [buckets EXCEPT ![b] = nodesUsed + 1] /\ UNCHANGED next
         ELSE next' = [next EXCEPT ![end] = nodesUsed + 1] /\ UNCHANGED buckets

Overwrite(i, v) ==
  /\ data' = [data EXCEPT ![i][2] = v]
  /\ UNCHANGED <<nodesUsed, buckets, next>>

Store(k, v) == IF Lookup(k) = 0 THEN NewPair(k, v) ELSE Overwrite(Lookup(k), v)

Insert(k, v) == Store(k, v) /\ told' = Data(k, <<v>>)

Unchanged == UNCHANGED <<nodesUsed, buckets, next, data>>

\* A map without pairs is not looked at, since it may have no buckets.
Pointer(k) == IF nodesUsed = 0 THEN 0 ELSE Lookup(k)
Exists(k) == Pointer(k) # 0
Content(k) == IF Exists(k) THEN <<data[Pointer(k)][2]>> ELSE <<>>

Get(k) == Unchanged /\ told' = Data(k, Content(k))

InsertIfNotExist(k, v) ==
  IF Exists(k) THEN Unchanged /\ told' = Data(k, <<>>) ELSE Insert(k, v)

\* Also ExistsOrInsert of Set, with data 0.
CheckOrInsert(k, v) ==
  /\ told' = Existed(k, Exists(k))
  /\ IF Exists(k) THEN Unchanged ELSE Store(k, v)

GetOrInsert(k, v) == IF Exists(k) THEN Get(k) ELSE Insert(k, v)

GetOrAllocate(k) ==
  IF Exists(k) THEN Unchanged /\ told' = Data(k, Content(k) \o <<TRUE>>)
               ELSE Store(k, Zero) /\ told' = Data(k, <<Zero, FALSE>>)

Pairs == SubSeq(data, 1, nodesUsed)

\* The iterators, and the arrays that are made with them.
PushHashmapArray == Unchanged /\ told' = Array(Pairs)

\* The pairs stay where they are and are overwritten later.
Clear ==
  /\ nodesUsed' = 0
  /\ buckets' = Empty
  /\ next' = NoNext
  /\ told' = Array(<<>>)
  /\ UNCHANGED data

HashmapNext ==
  \/ \E k \in Keys :
       \/ \E v \in Values : Insert(k, v) \/ InsertIfNotExist(k, v)
                              \/ CheckOrInsert(k, v) \/ GetOrInsert(k, v)
       \/ GetOrAllocate(k) \/ Get(k)
  \/ PushHashmapArray \/ Clear

HashmapSpec ==
  /\ hash \in [Keys -> Nat] /\ PushHashmap
  /\ [][HashmapNext /\ UNCHANGED hash]_<<hash, hashmapVars>>

Dictionary == INSTANCE Dictionary WITH entries <- Pairs

\* The map implements the dictionary (memory.hpp:770-1030).
IsDictionary == Dictionary!DictSpec
=============================================================================
