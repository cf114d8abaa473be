------------------------------ MODULE SimpleDMA ------------------------------
(***************************************************************************)
(* hardware/src/SimpleDMA.v as codeGeneration.cpp instantiates it: reads    *)
(* dma_length bytes at dma_external_addr_start over the databus, a word at  *)
(* a time, and writes them to the accelerator's own addresses from          *)
(* dma_internal_address_start.  Addresses and lengths count bytes.          *)
(***************************************************************************)
EXTENDS Naturals

VARIABLES dma_internal_address_start, dma_external_addr_start, dma_length,
          dma_running, dma_address,
          dma_left          \* words the databus still has to hand over

dmaRegs == <<dma_internal_address_start, dma_external_addr_start, dma_length>>
dmaVars == <<dmaRegs, dma_running, dma_address, dma_left>>

\* A register takes a byte of a write for each strobe, always whole: a full word leaves
\* its last byte, here of a register of 32 bits and of one of 24.
Last32(value) == (value \div 16777216) % 256
Last24(value) == (value \div 65536) % 256

\* The words the databus hands over for a length: with an empty one it still hands over one.
Words(length) == IF length = 0 THEN 1 ELSE (length + 3) \div 4

DmaTypeOK ==
  /\ {dma_internal_address_start, dma_external_addr_start, dma_length} \subseteq 0 .. 255
  /\ dma_running \in BOOLEAN
  /\ dma_address \in 0 .. 255 + 4 * Words(255)
  /\ dma_left \in 0 .. Words(255)

DmaInit ==
  /\ dma_internal_address_start = 0
  /\ dma_external_addr_start = 0
  /\ dma_length = 0
  /\ dma_running = FALSE
  /\ dma_address = 0
  /\ dma_left = 0

DmaReset ==
  /\ dma_internal_address_start' = 0
  /\ dma_external_addr_start' = 0
  /\ dma_length' = 0
  /\ dma_running' = FALSE
  /\ dma_address' = 0
  /\ dma_left' = 0

\* m_databus_ready in a cycle in which the memory has a word.
dma_ready(word) == dma_running /\ dma_left > 0 /\ word
m_databus_last  == dma_left = 1

\* Where in memory the word is from that is handed over.
m_databus_rdata == dma_external_addr_start + 4 * (Words(dma_length) - dma_left)

\* Mutated: the transfer is over with its first word.
DmaClock_FirstWord(start, word) ==
  \/ /\ dma_running /\ dma_ready(word)
     /\ dma_address' = dma_address + 4
     /\ dma_left' = dma_left - 1
     /\ dma_running' = FALSE
  \/ /\ dma_running /\ ~dma_ready(word)
     /\ UNCHANGED <<dma_address, dma_left, dma_running>>
  \/ /\ ~dma_running /\ start
     /\ dma_address' = dma_internal_address_start
     /\ dma_left' = Words(dma_length)
     /\ dma_running' = TRUE
  \/ /\ ~dma_running /\ ~start
     /\ UNCHANGED <<dma_address, dma_left, dma_running>>

DmaClock(start, word) ==
  \/ /\ dma_running /\ dma_ready(word)
     /\ dma_address' = dma_address + 4
     /\ dma_left' = dma_left - 1
     /\ dma_running' = ~m_databus_last
  \/ /\ dma_running /\ ~dma_ready(word)
     /\ UNCHANGED <<dma_address, dma_left, dma_running>>
  \/ /\ ~dma_running /\ start
     /\ dma_address' = dma_internal_address_start
     /\ dma_left' = Words(dma_length)
     /\ dma_running' = TRUE
  \/ /\ ~dma_running /\ ~start
     /\ UNCHANGED <<dma_address, dma_left, dma_running>>

\* The setup registers of the transfer, each written by one access with every strobe.
DmaSetup(register, value) ==
  /\ dma_internal_address_start' =
       IF register = "DmaInternalAddress" THEN Last32(value) ELSE dma_internal_address_start
  /\ dma_external_addr_start' =
       IF register = "DmaExternalAddress" THEN Last32(value) ELSE dma_external_addr_start
  /\ dma_length' = IF register = "DmaTransferLength" THEN Last24(value) ELSE dma_length
=============================================================================
