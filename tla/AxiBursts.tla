------------------------------ MODULE AxiBursts ------------------------------
(***************************************************************************)
(* The bursts the controllers split transfers into, one step per burst and  *)
(* the words left out.  AXITransferController keeps its registers, at the   *)
(* pace at which SimpleAXIToAXIRead asserts transfer_start_i and            *)
(* burst_start_i.  The registers of AXITransferController2 are those of     *)
(* SimpleAXIToAXIWrite2 (lines 144-152): "Multiple transfers can be perform *)
(* by incrementing address and decrementing length"                         *)
(* (AXITransferController2.v:21).  Reads and writes use channels of their   *)
(* own and share no register.                                               *)
(***************************************************************************)
EXTENDS AXITransferController

VARIABLES
  active, burst,             \* the read has bursts to issue; the last one, or None
  w_active, w_burst          \* as for the read

readCut  == <<address_i, length_i, controllerRegs, active, burst>>
writeCut == <<reg_address, reg_length, w_active, w_burst>>

BurstsTypeOK ==
  /\ ControllerTypeOK
  /\ {active, w_active} \subseteq BOOLEAN
  /\ {reg_address, reg_length} \subseteq Nat
  /\ \A b \in {burst, w_burst} : b = None \/ b.beats \in 1 .. MaxBeats

BurstsInit ==
  /\ ControllerInit
  /\ address_i = 0
  /\ length_i = 0
  /\ active = FALSE
  /\ burst = None
  /\ reg_address = 0
  /\ reg_length = 0
  /\ w_active = FALSE
  /\ w_burst = None

-----------------------------------------------------------------------------
StartRead ==
  /\ ~active
  /\ \E t \in Reads :
       /\ address_i' = t[1]
       /\ length_i' = t[2]
       /\ TransferStart(t[1], t[2])
  /\ active' = TRUE
  /\ burst' = None
  /\ UNCHANGED writeCut

ReadBurst ==
  /\ active
  /\ BurstStart
  /\ burst' = [word |-> true_axi_axaddr_o, beats |-> true_axi_axlen_o + 1]
  /\ active' = ~last_transfer_next_o
  /\ UNCHANGED <<address_i, length_i, writeCut>>

StartWrite ==
  /\ ~w_active
  /\ \E t \in Writes : reg_address' = t[1] /\ reg_length' = t[2]
  /\ w_active' = TRUE
  /\ w_burst' = None
  /\ UNCHANGED readCut

\* After the last burst the registers keep their values, which the next transfer
\* overwrites.
WriteBurst ==
  /\ w_active
  /\ w_burst' = [word |-> reg_address - misalign_amount(reg_address),
                 beats |-> out_axi_axlen(reg_address, reg_length) + 1]
  /\ w_active' = ~out_last_transfer(reg_address, reg_length)
  /\ reg_address' = reg_address + out_transfer_offset(reg_address, reg_length)
  /\ reg_length' = reg_length - out_transfer_offset(reg_address, reg_length)
  /\ UNCHANGED readCut

ReadBursts  == StartRead \/ ReadBurst
WriteBursts == StartWrite \/ WriteBurst

\* A behaviour uses one channel.
ReadRests  == ~active /\ burst = None
WriteRests == ~w_active /\ w_burst = None

BurstsNext ==
  \/ WriteRests /\ ReadBursts
  \/ ReadRests /\ WriteBursts

BurstsSpec == BurstsInit /\ [][BurstsNext]_<<readCut, writeCut>>

-----------------------------------------------------------------------------
\* The byte the next burst of a read starts with, and how many are left: a burst
\* but the first starts at the word the one before ended with.
NextByte ==
  IF ~active THEN address_i + length_i
  ELSE IF first_i_transfer THEN address_i ELSE true_axi_axaddr_o

BytesLeft == address_i + length_i - NextByte

Read == INSTANCE AxiTransfer WITH todoAddress <- NextByte, todoLength <- BytesLeft

Write == INSTANCE AxiTransfer
  WITH todoAddress <- reg_address, todoLength <- reg_length, burst <- w_burst

\* The bursts of either channel cover exactly the bytes asked for, within a page
\* and the longest burst (AXITransferController.v:3-5, AXITransferController2.v:3-5).
BurstsImplementTransfer == Read!TransferSpec /\ Write!TransferSpec

\* "Handles ... 4k boundary" (AXITransferController.v:3): no burst reaches into
\* the next page.
NoPageCrossing ==
  burst # None => (burst.word % Page) + burst.beats * STROBE_W <= Page

\* The table of AXITransferController.v:255-282: the beats of a transfer are the
\* words that hold its bytes, so after the last burst the next address is the
\* one behind the last of these words.
BeatsOfTransfer ==
  (~active /\ burst # None) =>
    true_axi_axaddr_o = address_i - offset
                          + STROBE_W * ((offset + length_i - 1) \div STROBE_W + 1)

-----------------------------------------------------------------------------
(* The model-checked instance, at the widths of a 32-bit accelerator:        *)
(* addresses and lengths around the places where a burst is cut.             *)

Around(S, d) == UNION {(x - d) .. (x + d) : x \in S}

LongAddresses == 0 .. 4 \cup Around({1024, 3072, 4096, 7168}, 5)
LongLengths   == 1 .. 9 \cup Around({1024, 2048, 3072, 4096, 5120, 8192}, 6)
LongTransfers == LongAddresses \X LongLengths

LongReads  == {t \in LongTransfers : ReadFits(t)}
LongWrites == {t \in LongTransfers : WriteFits(t)}
==============================================================================
