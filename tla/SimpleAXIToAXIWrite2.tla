------------------------ MODULE SimpleAXIToAXIWrite2 -------------------------
(***************************************************************************)
(* hardware/src/SimpleAXIToAXIWrite2.v with its BurstSplit.v and            *)
(* AXITransferController2.v: writes m_wlen_i bytes at m_waddr_i over AXI,    *)
(* from a stream of words whose first byte goes to m_waddr_i.  A write that *)
(* starts inside a bus word is shifted by BurstSplit, which keeps the upper *)
(* bytes of the word before.                                                *)
(*                                                                         *)
(* The caller (MuxNative) holds address and length until m_wlast_o; its     *)
(* words come from a VWrite, whose MemoryReader gives a word up in every    *)
(* cycle in which ready is up.  The memory, which is not part of the        *)
(* repository, is assumed to take words only after it took an address: the  *)
(* source's ready is not masked (line 63), so an earlier wready would make  *)
(* it give up words that are not sent.  Bytes are numbered by their position*)
(* in the stream.                                                           *)
(***************************************************************************)
EXTENDS AXITransferController2, FiniteSets

ASSUME RequestsAssumption == None \notin Writes

VARIABLES
  request,                              \* <<m_waddr_i, m_wlen_i>>, None without
  reg_state, reg_counter, axi_wstrb_o,  \* 0 idle, 1 start, 2 address, 3 data
  reg_stored_offset,
  stored_word,                          \* BurstSplit: the word sent before
  taken,                                \* words the source gave up in the request
  covered                               \* bytes of the request written so far

writeRegs == <<reg_state, reg_counter, axi_wstrb_o, reg_stored_offset, reg_address, reg_length>>
writeVars == <<request, writeRegs, stored_word, taken, covered>>

WriteTypeOK ==
  /\ request \in Writes \cup {None}
  /\ reg_state \in 0 .. 3
  /\ reg_counter \in 0 .. MaxBeats - 1
  /\ axi_wstrb_o \subseteq Lanes
  /\ reg_stored_offset \in Lanes
  /\ reg_address \in Nat
  /\ reg_length \in Nat
  /\ stored_word \in Nat \cup {None}
  /\ taken \in Nat
  /\ covered \in Nat

WriteInit ==
  /\ request = None
  /\ reg_state = 0
  /\ reg_counter = 0
  /\ axi_wstrb_o = {}
  /\ reg_stored_offset = 0
  /\ reg_address = 0
  /\ reg_length = 0
  /\ stored_word = None
  /\ taken = 0
  /\ covered = 0

-----------------------------------------------------------------------------
\* The signals of a cycle; hasData: the source shows a word, wready: the memory
\* would take one.
axi_awlen_o == out_axi_axlen(reg_address, reg_length)
axi_wlast_o == reg_counter = axi_awlen_o

state_transfer_running == reg_state = 3

m_wvalid_i(hasData) == request # None /\ hasData
m_wready_o(wready)  == wready
axi_wvalid_o(hasData) == m_wvalid_i(hasData) /\ state_transfer_running

Beat(hasData, wready) == axi_wvalid_o(hasData) /\ wready

\* Mutated: last with every burst.
m_wlast_o_EachBurst(hasData, wready) == Beat(hasData, wready) /\ axi_wlast_o

m_wlast_o(hasData, wready) ==
  Beat(hasData, wready) /\ axi_wlast_o /\ out_last_transfer(reg_address, reg_length)

\* The stream byte BurstSplit puts on a lane: the low lanes come from the word
\* sent before.
LaneByte(lane) ==
  IF lane >= reg_stored_offset THEN taken * STROBE_W + (lane - reg_stored_offset)
  ELSE IF stored_word = None THEN None
  ELSE stored_word * STROBE_W + (STROBE_W - reg_stored_offset + lane)

\* The memory byte under a lane of the beat.
LaneAddress(lane) ==
  reg_address - misalign_amount(reg_address) + reg_counter * STROBE_W + lane

-----------------------------------------------------------------------------
\* The four states of reg_state.
WriteIdle(hasData) ==
  /\ reg_state = 0
  /\ \/ /\ m_wvalid_i(hasData)
        /\ reg_state' = 1
        /\ reg_stored_offset' = misalign_amount(request[1])
        /\ reg_address' = request[1]
        /\ reg_length' = request[2]
     \/ /\ ~m_wvalid_i(hasData)
        /\ UNCHANGED <<reg_state, reg_stored_offset, reg_address, reg_length>>
  /\ UNCHANGED <<reg_counter, axi_wstrb_o>>

WriteStart ==
  /\ reg_state = 1
  /\ reg_state' = 2
  /\ UNCHANGED <<reg_counter, axi_wstrb_o, reg_stored_offset, reg_address, reg_length>>

WriteAddress(awready) ==
  /\ reg_state = 2
  /\ \/ /\ awready
        /\ reg_state' = 3
        /\ axi_wstrb_o' = out_initial_strb(reg_address, reg_length)
        /\ reg_counter' = 0
     \/ ~awready /\ UNCHANGED <<reg_state, axi_wstrb_o, reg_counter>>
  /\ UNCHANGED <<reg_stored_offset, reg_address, reg_length>>

\* After a beat: the burst goes on, the write is over, or its next burst begins.
WriteData(hasData, wready) ==
  /\ reg_state = 3
  /\ \/ /\ ~Beat(hasData, wready)
        /\ UNCHANGED <<reg_state, reg_counter, axi_wstrb_o, reg_address, reg_length>>
     \/ /\ Beat(hasData, wready)
        /\ reg_counter' = (reg_counter + 1) % MaxBeats
        /\ axi_wstrb_o' = IF reg_counter + 1 >= axi_awlen_o
                            THEN out_final_strb(reg_address, reg_length) ELSE Lanes
        /\ \/ /\ ~axi_wlast_o
              /\ UNCHANGED <<reg_state, reg_address, reg_length>>
           \/ /\ axi_wlast_o /\ out_last_transfer(reg_address, reg_length)
              /\ reg_state' = 0
              /\ UNCHANGED <<reg_address, reg_length>>
           \/ /\ axi_wlast_o /\ ~out_last_transfer(reg_address, reg_length)
              /\ reg_state' = 1
              /\ reg_address' = reg_address + out_transfer_offset(reg_address, reg_length)
              /\ reg_length' = reg_length - out_transfer_offset(reg_address, reg_length)
  /\ UNCHANGED reg_stored_offset

WriteClock(hasData, awready, wready) ==
  WriteIdle(hasData) \/ WriteStart \/ WriteAddress(awready) \/ WriteData(hasData, wready)

\* Mutated: the stored word follows the source even while the memory stalls.
SplitClock_Unready(hasData, wready) ==
  stored_word' = IF axi_wvalid_o(hasData) THEN taken ELSE stored_word

\* BurstSplit keeps the word of the last beat.
SplitClock(hasData, wready) ==
  stored_word' = IF Beat(hasData, wready) THEN taken ELSE stored_word

\* The source: a word leaves it whenever it shows one and sees ready.
SourceClock(hasData, wready) ==
  LET gives == m_wvalid_i(hasData) /\ m_wready_o(wready)
      ends  == gives /\ m_wlast_o(hasData, wready)
  IN \/ /\ request = None
        /\ request' \in Writes \cup {None}
        /\ taken' = 0
        /\ covered' = 0
     \/ /\ request # None
        /\ request' = IF ends THEN None ELSE request
        /\ taken' = IF gives THEN taken + 1 ELSE taken
        /\ covered' = IF Beat(hasData, wready) THEN covered + Cardinality(axi_wstrb_o)
                                               ELSE covered

\* A clock edge; wready only once the burst has its address.
WriteEdge(hasData, awready, wready) ==
  /\ wready => state_transfer_running
  /\ WriteClock(hasData, awready, wready)
  /\ SplitClock(hasData, wready)
  /\ SourceClock(hasData, wready)

WriteNext == \E hasData, awready, wready \in BOOLEAN : WriteEdge(hasData, awready, wready)

\* The source has its word and the memory answers, again and again.
WriteSpec == WriteInit /\ [][WriteNext]_writeVars /\ WF_writeVars(WriteEdge(TRUE, TRUE, state_transfer_running))

-----------------------------------------------------------------------------
\* A beat writes the next bytes of the stream to the next bytes of the request
\* and nothing else: strobes, lanes, shift and burst addresses agree, also in
\* the first and last beat of each burst (SimpleAXIToAXIWrite2.v:127-153).
BytesInPlace ==
  state_transfer_running =>
    \A lane \in axi_wstrb_o :
      /\ LaneByte(lane) = LaneAddress(lane) - request[1]
      /\ LaneByte(lane) \in covered .. covered + Cardinality(axi_wstrb_o) - 1

\* The request ends with its last byte written, and with as many words taken
\* from the source as hold its bytes: the next request of the unit goes on with
\* the next word (VWrite.v:134-148).
EndsWithLastByte ==
  [][ (request # None /\ request' = None) =>
        /\ covered' = request[2]
        /\ taken' = (request[2] + STROBE_W - 1) \div STROBE_W ]_writeVars

\* Every write comes to its end.
WriteServed == (request # None) ~> (request = None)
=============================================================================
