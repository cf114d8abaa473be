---------------------------- MODULE MCVReadVWrite ----------------------------
(***************************************************************************)
(* Two parts, of which a behaviour exercises one: the reader of a VWrite     *)
(* between any producer and any consumer, over two addresses that hold      *)
(* different words; and a VRead that drives a VWrite, with tiles of three    *)
(* words that are fetched at once and sent one by one, and empty tiles.     *)
(***************************************************************************)
EXTENDS VReadVWrite

VARIABLE part    \* the part the behaviour is about

TileOf(n, fetch, send) == [words |-> n, fetch |-> fetch, send |-> send]
MCTiles == {NoTile, TileOf(3, <<1, 3>>, <<3, 1>>)}

MCAddr == SentAddresses
MCContents == [a \in MCAddr |-> a.word]

TwoAddresses ==
  {[place |-> <<FALSE, i>>, word |-> [run |-> 0, index |-> i]] : i \in {0, 1}}

AnyEnvironment ==
  \E s_addr \in TwoAddresses \cup {None}, m_ready \in BOOLEAN :
    Clock(s_addr, m_ready) \/ ForceReset(s_addr)

-----------------------------------------------------------------------------
outerVars == <<topVars, busVars, readVars, w_pingPong, w_gen_valid, w_gen_addr, w_ram,
               w_delay, w_turn>>

PartsInit ==
  /\ part \in {"reader", "units"}
  /\ StreamInit
  /\ part = "reader" => ~(r_gen_valid \/ w_gen_valid)

PartsNext ==
  /\ UNCHANGED part
  /\ \/ part = "reader" /\ AnyEnvironment /\ UNCHANGED outerVars
     \/ part = "units" /\ StreamNext

PartsSpec == PartsInit /\ [][PartsNext]_<<part, unitVars>>
=============================================================================
