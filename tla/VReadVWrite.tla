---------------------------- MODULE VReadVWrite -----------------------------
(***************************************************************************)
(* hardware/src/units/VRead.v and VWrite.v, whole, with the graph between    *)
(* them: a VRead whose output drives a VWrite.  In one run the VRead fetches *)
(* a tile into one half of its memory and hands out the other, and the      *)
(* VWrite stores what arrives into one half of its memory and sends the     *)
(* other.  The stages of the configuration (versat_stage) make a tile that  *)
(* is asked for pass through fetch, computation and sending in three runs.  *)
(*                                                                         *)
(* Each unit is the databus half and the address half of SuperAddress, a    *)
(* generator of memory places, and a JoinTwoHandshakes (VRead) or a         *)
(* MemoryReader (VWrite) between the databus and the memory.                *)
(***************************************************************************)
EXTENDS MemoryReader

CONSTANTS HalfWords,   \* words in a half of each memory
          Tiles,       \* the tiles asked for
          Tags         \* runs are told apart modulo this

\* A tile is its number of words and, for the fetch and for the sending, the
\* <<amount, length>> of its transfers.
NoTile == [words |-> 0, fetch |-> <<0, 0>>, send |-> <<0, 0>>]

IsTile(t) ==
  /\ t.words \in 0 .. HalfWords
  /\ {t.fetch, t.send} \subseteq (0 .. HalfWords) \X (0 .. HalfWords)
  /\ t.fetch[1] * t.fetch[2] = t.words
  /\ t.send[1] * t.send[2] = t.words

\* A word of a tile carries the run that fetched it.  None is what a memory holds
\* that was not written, and the zero a VRead shows beside its words.
TileWord == [run : 0 .. Tags - 1, index : 0 .. HalfWords - 1]
Place    == BOOLEAN \X (0 .. HalfWords - 1)

\* To the reader an address is a place of the memory together with what it holds.
SentAddresses == [place : Place, word : TileWord \cup {None}]

ASSUME StreamAssumption ==
  /\ HalfWords \in Nat \ {0} /\ Tags \in Nat \ {0}
  /\ \A t \in Tiles : IsTile(t)
  /\ None \notin Place \cup TileWord
  /\ SentAddresses \subseteq Addr
  /\ \A a \in SentAddresses : Contents[a] = a.word

VARIABLES
  running, run_tag,                  \* the top: a run is on, and which one
  asked,                             \* configuration of the stages Read, Compute, Write
  state, count, count_is_zero, len,  \* databus half of both units
  rleft, wleft, words, w_running, w_slave, r_running, r_slave,
  r_pingPong, r_gen_valid, r_gen_addr,                       \* VRead
  first_state, first_data, first_extra, acceptedFirst, result_first,
  second_state, second_data, second_extra, acceptedSecond, result_second, joinReset,
  r_ram, r_turn, r_ram_reg, r_ram_out, store_value_0, store_value_1, out0,
  w_pingPong, w_gen_valid, w_gen_addr, w_ram, w_delay, w_turn   \* VWrite

topVars   == <<running, run_tag, asked>>
busVars   == <<state, count, count_is_zero, len, rleft, wleft, words,
               w_running, w_slave, r_running, r_slave>>
joinVars  == <<first_state, first_data, first_extra, acceptedFirst, result_first,
               second_state, second_data, second_extra, acceptedSecond, result_second,
               joinReset>>
readVars  == <<r_pingPong, r_gen_valid, r_gen_addr, joinVars, r_ram, r_turn,
               r_ram_reg, r_ram_out, store_value_0, store_value_1, out0>>
writeVars == <<w_pingPong, w_gen_valid, w_gen_addr, w_ram, w_delay, w_turn, vars>>
unitVars  == <<topVars, busVars, readVars, writeVars>>

VRead == 0
VWrite == 1

Bus == INSTANCE Databus
  WITH N_SLAVES <- 2, Writers <- {VWrite}, MaxCount <- HalfWords, MaxLen <- HalfWords

writer == INSTANCE JoinTwoHandshakes
  WITH FirstData <- Place, SecondData <- TileWord, NoData <- None, wasReset <- joinReset

Latency == 3    \* versat_latency of VRead, the delay0 the compiler gives the VWrite

StreamInit ==
  /\ running = FALSE /\ run_tag = 0
  /\ asked = <<NoTile, NoTile, NoTile>>
  /\ Bus!Init
  /\ r_pingPong = FALSE /\ r_gen_valid \in BOOLEAN /\ r_gen_addr = 0
  /\ writer!JoinInit
  /\ r_ram = [p \in Place |-> None] /\ r_turn = 0
  /\ r_ram_reg = None /\ r_ram_out = None /\ out0 = None
  /\ store_value_0 = FALSE /\ store_value_1 = FALSE
  /\ w_pingPong = FALSE /\ w_gen_valid \in BOOLEAN /\ w_gen_addr = 0
  /\ w_ram = [p \in Place |-> None] /\ w_delay = 0 /\ w_turn = 0
  /\ Init

-----------------------------------------------------------------------------
\* The address halves: one loop over the words of the tile at hand.
read_mem   == r_turn < asked[2].words
store_en   == w_delay = 0 /\ w_turn < asked[2].words
doneOutput == ~read_mem
doneStore  == w_delay = 0 /\ w_turn = asked[2].words

done == Bus!doneDatabus(VRead) /\ Bus!doneDatabus(VWrite) /\ doneOutput /\ doneStore

\* How many words of the run's transfers a unit has seen.
Seen(i, transfers) == (transfers[1] - count[i]) * len[i] + words[i]

data_valid == running /\ m_valid_o
HasData    == IF data_valid THEN {VWrite} ELSE {}

ReadyOf(i, rgo, wgo) == Bus!Ready(i, Bus!Valid(HasData), rgo, wgo)

\* Mutated: that no run is on is looked at before the start of one.
GenValid_IdleFirst(valid, starts) == running /\ (starts \/ valid)

\* gen_valid and gen_addr_temp: loaded by a run that transfers something.
GenValid(valid, starts) == starts \/ (running /\ valid)
GenAddr(valid, ready, addr, starts) ==
  CASE starts -> 0
    [] ~starts /\ valid /\ ready -> (addr + 1) % HalfWords
    [] OTHER -> addr

\* The halves: the databus side uses the one the computation does not.
storeHalf == w_pingPong
genPlace  == <<~r_pingPong, r_gen_addr>>
sentPlace == <<~w_pingPong, w_gen_addr>>

-----------------------------------------------------------------------------
\* VRead.  starts is run && enabled && length != 0.
VReadClock(starts, run, word) ==
  /\ r_gen_valid' = GenValid(r_gen_valid, starts)
  /\ r_gen_addr' = GenAddr(r_gen_valid, writer!firstBuffer!in_ready_o, r_gen_addr, starts)
  /\ writer!JoinClock(IF r_gen_valid THEN genPlace ELSE None, word, TRUE, ~running \/ run)
  /\ r_ram' = IF writer!result_valid_o THEN [r_ram EXCEPT ![first_data] = second_data] ELSE r_ram
  /\ r_ram_reg' = IF read_mem THEN r_ram[<<r_pingPong, r_turn>>] ELSE r_ram_reg
  /\ r_ram_out' = r_ram_reg
  /\ store_value_0' = read_mem
  /\ store_value_1' = store_value_0
  /\ out0' = IF store_value_1 THEN r_ram_out ELSE None

\* VWrite, whose input is the VRead's output.
VWriteClock(starts, run, data_ready) ==
  LET s_addr == IF w_gen_valid THEN [place |-> sentPlace, word |-> w_ram[sentPlace]] ELSE None
      resets == ~running \/ run
  IN
  /\ w_gen_valid' = GenValid(w_gen_valid, starts)
  /\ w_gen_addr' = GenAddr(w_gen_valid, resets \/ s_ready_o, w_gen_addr, starts)
  /\ IF resets THEN ForceReset(s_addr) ELSE Clock(s_addr, data_ready)
  /\ w_ram' = IF store_en THEN [w_ram EXCEPT ![<<storeHalf, w_turn>>] = out0] ELSE w_ram

\* A cycle in which no run starts: rgo and wgo say whether the memory behind
\* the databus answers.
UnitsClock(rgo, wgo) ==
  LET fetched == [run |-> run_tag, index |-> Seen(VRead, asked[1].fetch)] IN
  /\ running' = (running /\ ~done)
  /\ UNCHANGED <<run_tag, asked, r_pingPong, w_pingPong>>
  /\ Bus!Clock(HasData, rgo, wgo)
  /\ VReadClock(FALSE, FALSE, IF ReadyOf(VRead, rgo, wgo) THEN fetched ELSE None)
  /\ VWriteClock(FALSE, FALSE, ReadyOf(VWrite, rgo, wgo))
  /\ r_turn' = IF read_mem THEN r_turn + 1 ELSE r_turn
  /\ w_turn' = IF store_en THEN w_turn + 1 ELSE w_turn
  /\ w_delay' = IF w_delay > 0 THEN w_delay - 1 ELSE 0

\* Mutated: a unit without a transfer keeps its halves.
SwapHalves_IfFetching(tile) ==
  /\ r_pingPong' = (r_pingPong # (tile.words # 0))
  /\ w_pingPong' = ~w_pingPong

\* pingPong is set: every run swaps the halves.
SwapHalves(tile) ==
  /\ r_pingPong' = ~r_pingPong
  /\ w_pingPong' = ~w_pingPong

ByUnit(r, w) == [i \in Bus!Slaves |-> IF i = VRead THEN r ELSE w]

\* The cycle of run, in which the configuration of a tile moves on by a stage.
Run(tile) ==
  LET now == <<tile, asked[1], asked[2]>> IN
  /\ done /\ ~running
  /\ running' = TRUE
  /\ run_tag' = (run_tag + 1) % Tags
  /\ asked' = now
  /\ SwapHalves(tile)
  /\ Bus!Run(ByUnit(now[1].fetch[1], now[3].send[1]), ByUnit(now[1].fetch[2], now[3].send[2]))
  /\ VReadClock(now[1].fetch[2] # 0, TRUE, None)
  /\ VWriteClock(now[3].send[2] # 0, TRUE, FALSE)
  /\ r_turn' = 0
  /\ w_turn' = 0
  /\ w_delay' = Latency

StreamNext ==
  \/ \E rgo, wgo \in BOOLEAN : UnitsClock(rgo, wgo)
  \/ \E tile \in Tiles : Run(tile)

StreamSpec == StreamInit /\ [][StreamNext]_unitVars

-----------------------------------------------------------------------------
\* Whatever word a VWrite shows the databus is the one the VRead fetched at that
\* place of the same tile two runs before: through both joins, both memories
\* and their halves, the latency of the graph and any stalls on either side no
\* word is lost, doubled, moved or left over from another tile
\* (VRead.v:236, VWrite.v:223).
SendsWhatWasFetched ==
  state[VWrite] = 2 /\ data_valid =>
    mem[read].data = [run |-> (run_tag + Tags - 2) % Tags,
                      index |-> Seen(VWrite, asked[3].send)]

\* While a VRead is in a transfer it has room for the word, whether it is asked or
\* not: the databus hands words over without a look at valid (VRead.v:218), and
\* the unit shows its request only while it has room (SuperAddress.v:319).
WordsAlwaysTaken == state[VRead] = 2 => writer!secondBuffer!in_ready_o
=============================================================================
