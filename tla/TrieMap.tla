------------------------------- MODULE TrieMap -------------------------------
(***************************************************************************)
(* TrieMap of common/memory.hpp: a tree whose nodes each hold a pair and    *)
(* have four children, chosen by two bits of the hash per level, with a    *)
(* list through the nodes in the order of insertion.  Nodes come from an    *)
(* arena and are never given back; a pointer is a node's number there, 0   *)
(* the null pointer and, as a parent, the map itself.                      *)
(***************************************************************************)
EXTENDS Integers, Sequences, Functions

CONSTANTS Keys, Values, Zero,
          ArenaNodes,       \* how many nodes the arena has room for
          RemovesInner      \* whether keys above others are removed

VARIABLES
  hash,          \* of each key, Hash in pairs of bits, lowest first; any, fixed
  childs,        \* of the map itself
  nodes, head, tail, inserted,
  told           \* what the last operation returned

trieVars == <<childs, nodes, head, tail, inserted, told>>

\* What an operation on a key tells: data (nothing for a null pointer, and after
\* GetOrAllocate whether it was there), or whether the key existed; or all pairs.
Data(k, d) == <<"data", k, d>>
Existed(k, b) == <<"existed", k, b>>
Array(pairs) == <<"array", pairs>>

NoChilds == [s \in 0 .. 3 |-> 0]

PushTrieMap ==
  /\ childs = NoChilds
  /\ nodes = <<>>
  /\ head = 0
  /\ tail = 0
  /\ inserted = 0
  /\ told = Array(<<>>)

\* The child of a node that the hash selects at a depth.
Select(k, depth) == hash[k][depth]
Child(p, s) == IF p = 0 THEN childs[s] ELSE nodes[p].childs[s]

Holds(n, k) == nodes[n].key = k

\* Where Insert stops: at a free place, at a node that is no longer valid, or
\* at the key's own.
Place(k) ==
  LET down[p \in 0 .. Len(nodes)] ==
        [d \in Nat |->
           LET c == Child(p, Select(k, d))
           IN  IF c = 0 \/ ~nodes[c].valid \/ Holds(c, k)
               THEN [parent |-> p, select |-> Select(k, d), node |-> c] ELSE down[c][d + 1]]
  IN  down[0][0]

\* Where Get stops: it passes nodes that are no longer valid.
Lookup(k) ==
  LET down[p \in 0 .. Len(nodes)] ==
        [d \in Nat |->
           LET c == Child(p, Select(k, d))
           IN  IF c = 0 \/ (nodes[c].valid /\ Holds(c, k)) THEN c ELSE down[c][d + 1]]
  IN  down[0][0]

Node(k, v) == [childs |-> NoChilds, key |-> k, value |-> v, next |-> 0, valid |-> TRUE]

Fresh == Len(nodes) + 1

\* A new node takes the place, with whatever was below it, and ends the list.
NewNode(place, k, v) ==
  /\ Len(nodes) < ArenaNodes
  /\ LET grown == Append(nodes, Node(k, v))
         listed == IF head = 0 THEN grown ELSE [grown EXCEPT ![tail].next = Fresh]
     IN  IF place.parent = 0
         THEN /\ childs' = [childs EXCEPT ![place.select] = Fresh]
              /\ nodes' = listed
         ELSE /\ nodes' = [listed EXCEPT ![place.parent].childs[place.select] = Fresh]
              /\ UNCHANGED childs
  /\ head' = IF head = 0 THEN Fresh ELSE head
  /\ tail' = Fresh
  /\ inserted' = inserted + 1

IsThere(place) == place.node # 0 /\ nodes[place.node].valid

Unchanged == UNCHANGED <<childs, nodes, head, tail, inserted>>

Store(k, v) ==
  IF IsThere(Place(k))
  THEN /\ nodes' = [nodes EXCEPT ![Place(k).node].value = v]
       /\ UNCHANGED <<childs, head, tail, inserted>>
  ELSE NewNode(Place(k), k, v)

Insert(k, v) == Store(k, v) /\ told' = Data(k, <<v>>)

InsertIfNotExist(k, v) ==
  IF IsThere(Place(k)) THEN Unchanged /\ told' = Data(k, <<nodes[Place(k).node].value>>)
                       ELSE Insert(k, v)

Exists(k) == Lookup(k) # 0
Content(k) == IF Exists(k) THEN <<nodes[Lookup(k)].value>> ELSE <<>>

Get(k) == Unchanged /\ told' = Data(k, Content(k))

\* ExistsOrInsert of TrieSet, with data 0.
ExistsOrInsert(k, v) ==
  /\ told' = Existed(k, Exists(k))
  /\ IF Exists(k) THEN Unchanged ELSE Store(k, v)

GetOrInsert(k, v) == IF Exists(k) THEN Get(k) ELSE Insert(k, v)

GetOrAllocate(k) ==
  IF Exists(k) THEN Unchanged /\ told' = Data(k, Content(k) \o <<TRUE>>)
               ELSE Store(k, Zero) /\ told' = Data(k, <<Zero, FALSE>>)

\* The nodes along the list.
Listed ==
  LET from[n \in 0 .. Len(nodes)] == IF n = 0 THEN <<>> ELSE <<n>> \o from[nodes[n].next]
  IN  from[head]

Pairs == [i \in DOMAIN Listed |-> <<nodes[Listed[i]].key, nodes[Listed[i]].value>>]

\* The array has room for as many pairs as were counted.
AsArray == Unchanged /\ told' = Array(SubSeq(Pairs, 1, inserted))

Below(n) == {c \in {nodes[n].childs[s] : s \in 0 .. 3} : c # 0 /\ nodes[c].valid}

\* The list is searched, not the tree, and the node stays in the tree.
RemoveKey(k) ==
  LET i == CHOOSE i \in DOMAIN Listed : Holds(Listed[i], k)
      n == Listed[i]
      unlisted == [nodes EXCEPT ![n].valid = FALSE, ![n].next = 0]
  IN  IF \A j \in DOMAIN Listed : ~Holds(Listed[j], k)
      THEN Unchanged /\ told' = Existed(k, FALSE)
      ELSE /\ RemovesInner \/ Below(n) = {}
           /\ told' = Existed(k, TRUE)
           /\ inserted' = inserted - 1
           /\ UNCHANGED childs
           /\ IF i = 1
              THEN /\ head' = IF head = tail THEN 0 ELSE nodes[n].next
                   /\ tail' = IF head = tail THEN 0 ELSE tail
                   /\ nodes' = unlisted
              ELSE /\ nodes' = [unlisted EXCEPT ![Listed[i - 1]].next = nodes[n].next]
                   /\ tail' = IF n = tail THEN Listed[i - 1] ELSE tail
                   /\ UNCHANGED head

Clear ==
  /\ nodes' = [n \in DOMAIN nodes |->
                 [nodes[n] EXCEPT !.valid = @ /\ n \notin Range(Listed)]]
  /\ head' = 0
  /\ tail' = 0
  /\ inserted' = 0
  /\ told' = Array(<<>>)
  /\ UNCHANGED childs

TrieNext ==
  \/ \E k \in Keys :
       \/ \E v \in Values : Insert(k, v) \/ InsertIfNotExist(k, v)
                              \/ ExistsOrInsert(k, v) \/ GetOrInsert(k, v)
       \/ GetOrAllocate(k) \/ Get(k) \/ RemoveKey(k)
  \/ AsArray \/ Clear

TrieSpec ==
  /\ hash \in [Keys -> [Nat -> 0 .. 3]] /\ PushTrieMap
  /\ [][TrieNext /\ UNCHANGED hash]_<<hash, trieVars>>

Dictionary == INSTANCE Dictionary WITH entries <- Pairs

\* The map implements the dictionary (memory.hpp:1034-1299).
IsDictionary == Dictionary!DictSpec
=============================================================================
