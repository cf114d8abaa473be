------------------------ MODULE AXITransferController ------------------------
(***************************************************************************)
(* hardware/src/AXITransferController.v: splits a read of length bytes at   *)
(* address into AXI bursts.  The module keeps the length not yet covered    *)
(* and the address of the next burst; SimpleAXIToAXIRead asserts            *)
(* transfer_start_i once and burst_start_i when the memory accepts a burst. *)
(*                                                                         *)
(* The generate branches for AXI_DATA_W 32 to 512 are one formula over      *)
(* STROBE_W here: the conditions of the 32-bit branch (line 150) enumerate  *)
(* the carry out of the two low bits that the wider branches compute.       *)
(***************************************************************************)
EXTENDS AXITransferController2   \* the same bus

CONSTANTS LEN_W,       \* width of lengths, 20 in every accelerator
          Reads        \* the <<address, length>> pairs asked for

ASSUME ControllerAssumption == LEN_W \in Nat \ {0}

VARIABLES address_i, length_i,   \* held by the caller during the transfer
          stored_len,            \* bytes left, as the module counts them
          first_i_transfer,      \* the next burst is the first
          true_axi_axaddr_o,     \* word address of the next burst
          last_transfer_o        \* the burst under way is the last

controllerRegs == <<stored_len, first_i_transfer, true_axi_axaddr_o, last_transfer_o>>

\* The reads the module cuts right: those that start at a word, and those at any
\* byte that need one burst only.
ReadFits(t) ==
  \/ t[1] % STROBE_W = 0
  \/ /\ (t[1] % STROBE_W) + t[2] <= MaxBeats * STROBE_W
     /\ (t[1] % Page) + t[2] <= Page

offset == address_i % STROBE_W

\* MAX_LENGTH words, never more than a page; the 32- and 64-bit branches bound it
\* by 256 words, which AXI_LEN_W <= 8 implies.
max_transfer_len           == Min2(MaxBeats * STROBE_W, Page)
max_transfer_len_minus_one == Min2(MaxBeats * STROBE_W, Page) - STROBE_W

first_i_transfer_len  == max_transfer_len_minus_one + (STROBE_W - offset)

boundary_transfer_len == Page - (true_axi_axaddr_o % Page)

transfer_byte_size ==
  Min2(boundary_transfer_len,
       Min2(stored_len, IF first_i_transfer THEN first_i_transfer_len
                                            ELSE max_transfer_len))

last_transfer_next_o == transfer_byte_size = stored_len

\* Beats less one of the last burst: stored_len is cut to 8 bits of words, and
\* the low bits of the address are added whatever came before.  Less one wraps, of
\* which true_axi_axlen_o keeps AXI_LEN_W bits.
storedWords == (stored_len \div STROBE_W) % 256
last_transfer_o_len ==
  IF offset = 0 /\ stored_len % STROBE_W = 0 THEN storedWords + (MaxBeats - 1)
  ELSE IF offset + (stored_len % STROBE_W) > STROBE_W THEN storedWords + 1
  ELSE storedWords

true_axi_axlen_o ==
  (IF last_transfer_next_o THEN last_transfer_o_len
   ELSE (transfer_byte_size - 1) \div STROBE_W) % MaxBeats

ControllerTypeOK ==
  /\ address_i \in Nat
  /\ length_i \in 0 .. 2^LEN_W - 1
  /\ stored_len \in 0 .. 2^LEN_W - 1
  /\ {first_i_transfer, last_transfer_o} \subseteq BOOLEAN
  /\ true_axi_axaddr_o \in Nat

ControllerInit ==
  /\ stored_len = 0
  /\ first_i_transfer = FALSE
  /\ true_axi_axaddr_o = 0
  /\ last_transfer_o = FALSE

\* transfer_start_i: the caller presents a new address and length.
\* last_transfer_o is loaded from the registers of the transfer before.
TransferStart(a, l) ==
  /\ first_i_transfer' = TRUE
  /\ last_transfer_o' = last_transfer_next_o
  /\ true_axi_axaddr_o' = a - (a % STROBE_W)
  /\ stored_len' = l

\* burst_start_i: the memory accepted the burst the outputs describe.
BurstStart ==
  /\ first_i_transfer' = FALSE
  /\ last_transfer_o' = last_transfer_next_o
  /\ true_axi_axaddr_o' = true_axi_axaddr_o + (true_axi_axlen_o + 1) * STROBE_W
  /\ stored_len' = stored_len - transfer_byte_size
=============================================================================
