----------------------------- MODULE MCContainers -----------------------------
(***************************************************************************)
(* The containers every pass of the compiler is written with, in parts     *)
(* that share no state and of which a behaviour exercises one: the two     *)
(* maps with hashes that collide in different ways, a pool of two blocks,  *)
(* arenas under functions three deep, and the search for the largest       *)
(* clique of every graph of a few mappings.                                *)
(***************************************************************************)
EXTENDS Pool, Arena, Hashmap, MaxClique, TLC

CONSTANTS ArenaNodes, RemovesInner, Hashes,
          k1, k2, k3, v0, v1

VARIABLES
  part,      \* the part the behaviour is about
  childs, nodes, head, tail, inserted, trieTold

\* The other value comes in by GetOrAllocate.
Digits == [k \in Keys |-> [depth \in Nat |-> (hash[k] \div 4 ^ depth) % 4]]
Trie == INSTANCE TrieMap WITH hash <- Digits, told <- trieTold, Values <- {v1}

\* All in one bucket and in one branch of the tree; two in one bucket.
ThreeDeep == (k1 :> 1) @@ (k2 :> 5) @@ (k3 :> 17)
SomeHashes == {ThreeDeep, (k1 :> 0) @@ (k2 :> 2) @@ (k3 :> 16)}

PartsInit ==
  /\ part \in {"hashmap", "triemap", "pool", "arena", "clique"}
  /\ hash \in Hashes
  /\ part # "hashmap" => hash = ThreeDeep
  /\ PushHashmap
  /\ Trie!PushTrieMap
  /\ PoolInit
  /\ ArenaInit
  /\ IF part = "clique" THEN MaxCliqueInit
     ELSE size = 0 /\ edges = {} /\ upperBound = 0 /\ patience = 0 /\ clique = CliqueStart

trieVars == <<childs, nodes, head, tail, inserted, trieTold>>

PartsNext ==
  /\ UNCHANGED <<part, hash>>
  /\ \/ /\ part = "hashmap" /\ HashmapNext
        /\ UNCHANGED <<trieVars, poolVars, arenaVars, cliqueVars>>
     \/ /\ part = "triemap" /\ Trie!TrieNext
        /\ UNCHANGED <<hashmapVars, poolVars, arenaVars, cliqueVars>>
     \/ /\ part = "pool" /\ PoolNext
        /\ UNCHANGED <<hashmapVars, trieVars, arenaVars, cliqueVars>>
     \/ /\ part = "arena" /\ ArenaNext
        /\ UNCHANGED <<hashmapVars, trieVars, poolVars, cliqueVars>>
     \/ /\ part = "clique" /\ Turn
        /\ UNCHANGED <<hashmapVars, trieVars, poolVars, arenaVars>>

PartsSpec ==
  PartsInit /\ [][PartsNext]_<<part, hash, hashmapVars, trieVars, poolVars, arenaVars, cliqueVars>>

\* Both maps are functions from keys to data that are iterated in the order of
\* insertion and tell what was stored last (memory.hpp:872, :1046).
MapsAreDictionaries == IsDictionary /\ Trie!IsDictionary
=============================================================================
