------------------------- MODULE SimpleAXIToAXIRead --------------------------
(***************************************************************************)
(* hardware/src/SimpleAXIToAXIRead.v with its BurstAlign.v and              *)
(* AXITransferController.v: reads m_rlen_i bytes at m_raddr_i over AXI and   *)
(* hands them over as words that start at the first byte, m_rlast_o with    *)
(* the last.  A read that starts inside a bus word is shifted by BurstAlign, *)
(* which holds back one bus word.                                           *)
(*                                                                         *)
(* The caller is MuxNative: it holds address and length until m_rlast_o,    *)
(* then shows address 0, length 0 and no valid for at least a cycle.  The   *)
(* other side is an AXI memory that accepts an address and offers a beat    *)
(* when it likes.  A bus word is its word address.                          *)
(***************************************************************************)
EXTENDS AXITransferController

VARIABLES
  m_rvalid_i,                    \* the caller asks
  read_state,                    \* 0 idle, 1 compute, 2 address, 3 data
  read_axi_len, symbolsRead,
  valid, flush, stored_data,     \* BurstAlign
  pending, nextWord,             \* the memory: beats left of its burst
  received                       \* words the caller got in its request

readRegs == <<read_state, read_axi_len, symbolsRead>>
alignRegs == <<valid, flush, stored_data>>
readVars == <<address_i, length_i, controllerRegs, m_rvalid_i, readRegs, alignRegs,
          pending, nextWord, received>>

\* Every word of the stream is full but the last: ceil(length / STROBE_W).
symbolsToRead_o == (length_i + STROBE_W - 1) \div STROBE_W

ReadTypeOK ==
  /\ ControllerTypeOK
  /\ {m_rvalid_i, valid, flush} \subseteq BOOLEAN
  /\ read_state \in 0 .. 3
  /\ read_axi_len \in 0 .. MaxBeats - 1
  /\ symbolsRead \in Nat
  /\ stored_data \in Nat \cup {None}
  /\ pending \in 0 .. MaxBeats
  /\ nextWord \in Nat
  /\ received \in Nat

ReadInit ==
  /\ ControllerInit
  /\ address_i = 0
  /\ length_i = 0
  /\ m_rvalid_i = FALSE
  /\ read_state = 0
  /\ read_axi_len = 0
  /\ symbolsRead = 0
  /\ valid = FALSE
  /\ flush = FALSE
  /\ stored_data = None
  /\ pending = 0
  /\ nextWord = 0
  /\ received = 0

-----------------------------------------------------------------------------
\* The signals of a cycle; go says whether the memory offers its next beat.
axi_rvalid_i(go) == pending > 0 /\ go
axi_rready_o     == read_state = 3
axi_rlast_i      == pending = 1
burst_last(go)   == axi_rvalid_i(go) /\ axi_rready_o /\ axi_rlast_i

\* BurstAlign hands a word over when a beat completes the one it holds, and
\* when it flushes.
m_rready_o(go) == flush \/ (valid /\ axi_rvalid_i(go))

\* The two bus words whose bytes make up the word handed over; with a flush the
\* second is whatever the bus shows.
m_rdata_o(go) ==
  [low |-> stored_data, high |-> IF axi_rvalid_i(go) THEN nextWord ELSE None]

\* Mutated: last comes a word early.
m_rlast_o_Early(go) ==
  read_state = 0 \/ (m_rready_o(go) /\ symbolsRead + 2 >= symbolsToRead_o)

\* Mutated: the end of a burst is taken for the end of the request.
m_rlast_o_EachBurst(go) == read_state = 0 \/ (m_rready_o(go) /\ burst_last(go))

m_rlast_o(go) ==
  read_state = 0 \/ (m_rready_o(go) /\ symbolsRead + 1 >= symbolsToRead_o)

transfer_start_i(go) == read_state = 0 /\ m_rvalid_i /\ ~m_rready_o(go)
burst_start_i(arready) == read_state = 2 /\ arready

-----------------------------------------------------------------------------
ControllerClock(arready, go) ==
  \/ transfer_start_i(go) /\ TransferStart(address_i, length_i)
  \/ burst_start_i(arready) /\ BurstStart
  \/ /\ ~transfer_start_i(go) /\ ~burst_start_i(arready)
     /\ UNCHANGED controllerRegs

\* Mutated: the word held back is forgotten when the memory pauses.
AlignClock_Forgets(go) ==
  /\ flush' = (burst_last(go) /\ last_transfer_o)
  /\ valid' = axi_rvalid_i(go)
  /\ stored_data' = IF axi_rvalid_i(go) THEN nextWord ELSE stored_data

AlignClock(go) ==
  /\ flush' = (burst_last(go) /\ last_transfer_o)
  /\ valid' = (axi_rvalid_i(go) \/ (valid /\ read_state # 0))
  /\ stored_data' = IF axi_rvalid_i(go) THEN nextWord ELSE stored_data

\* The four states of read_state.
ReadIdle(go) ==
  /\ read_state = 0
  /\ read_state' = IF transfer_start_i(go) THEN 1 ELSE 0
  /\ symbolsRead' = IF transfer_start_i(go) THEN 0 ELSE symbolsRead
  /\ UNCHANGED read_axi_len

CountSymbol(go) ==
  symbolsRead' = IF m_rvalid_i /\ m_rready_o(go) THEN symbolsRead + 1 ELSE symbolsRead

ReadCompute(go) ==
  /\ read_state = 1
  /\ read_state' = 2
  /\ read_axi_len' = true_axi_axlen_o
  /\ CountSymbol(go)

ReadAddress(arready, go) ==
  /\ read_state = 2
  /\ read_state' = IF arready THEN 3 ELSE 2
  /\ CountSymbol(go)
  /\ UNCHANGED read_axi_len

\* Mutated: a transfer has one burst only.
ReadData_OneBurst(go) ==
  /\ read_state = 3
  /\ read_state' = IF burst_last(go) /\ last_transfer_o THEN 0 ELSE 3
  /\ CountSymbol(go)
  /\ UNCHANGED read_axi_len

ReadData(go) ==
  /\ read_state = 3
  /\ read_state' = IF ~burst_last(go) THEN 3 ELSE IF last_transfer_o THEN 0 ELSE 1
  /\ CountSymbol(go)
  /\ UNCHANGED read_axi_len

ReadClock(arready, go) ==
  ReadIdle(go) \/ ReadCompute(go) \/ ReadAddress(arready, go) \/ ReadData(go)

\* The AXI memory: takes a burst, then gives its beats.
MemoryClock(arready, go) ==
  \/ /\ burst_start_i(arready)
     /\ pending' = read_axi_len + 1
     /\ nextWord' = true_axi_axaddr_o \div STROBE_W
  \/ /\ axi_rvalid_i(go) /\ axi_rready_o
     /\ pending' = pending - 1
     /\ nextWord' = nextWord + 1
  \/ /\ ~burst_start_i(arready) /\ ~(axi_rvalid_i(go) /\ axi_rready_o)
     /\ UNCHANGED <<pending, nextWord>>

\* The caller: a request ends with the word that is flagged last.
CallerClock(go) ==
  \/ /\ ~m_rvalid_i
     /\ \/ UNCHANGED <<m_rvalid_i, address_i, length_i>>
        \/ /\ m_rvalid_i' = TRUE
           /\ \E t \in Reads : address_i' = t[1] /\ length_i' = t[2]
     /\ received' = 0
  \/ /\ m_rvalid_i /\ ~m_rready_o(go)
     /\ UNCHANGED <<m_rvalid_i, address_i, length_i, received>>
  \/ /\ m_rvalid_i /\ m_rready_o(go) /\ ~m_rlast_o(go)
     /\ received' = received + 1
     /\ UNCHANGED <<m_rvalid_i, address_i, length_i>>
  \/ /\ m_rvalid_i /\ m_rready_o(go) /\ m_rlast_o(go)
     /\ m_rvalid_i' = FALSE
     /\ address_i' = 0
     /\ length_i' = 0
     /\ received' = 0

ReadEdge(arready, go) ==
  /\ ControllerClock(arready, go)
  /\ AlignClock(go)
  /\ ReadClock(arready, go)
  /\ MemoryClock(arready, go)
  /\ CallerClock(go)

ReadNext == \E arready, go \in BOOLEAN : ReadEdge(arready, go)

\* The clock runs and the memory answers again and again.
ReadSpec == ReadInit /\ [][ReadNext]_readVars /\ WF_readVars(ReadEdge(TRUE, TRUE))

-----------------------------------------------------------------------------
\* "The outside code expects the same number of transfers for the same length"
\* (SimpleAXIToAXIRead.v:18-23): the caller is told last with the word that
\* holds the last byte, neither before nor after.
LastOnLastWord ==
  \A go \in BOOLEAN :
    (m_rvalid_i /\ m_rready_o(go)) =>
      (m_rlast_o(go) <=> received + 1 = symbolsToRead_o)

\* The bytes of the word that is handed over are the next bytes of the request:
\* BurstAlign pairs each bus word with the one behind it, also across two
\* bursts, and a request never sees a word of the one before.
WordsInOrder ==
  \A go \in BOOLEAN :
    (m_rvalid_i /\ m_rready_o(go)) =>
      LET first == address_i \div STROBE_W + received
          held  == Min2(length_i - received * STROBE_W, STROBE_W)
      IN /\ m_rdata_o(go).low = first
         /\ offset + held > STROBE_W => m_rdata_o(go).high = first + 1

\* The end of the request and the end of the bursts fall together: when the
\* caller is released, no beat and no burst is left to come (MuxNative may
\* grant the channel to another unit at once).
ReleasedWhenDrained ==
  [][ (m_rvalid_i /\ ~m_rvalid_i') => pending' = 0 /\ read_state' = 0 ]_readVars

\* Every request is answered to the end.
ReadServed == m_rvalid_i ~> ~m_rvalid_i
=============================================================================
