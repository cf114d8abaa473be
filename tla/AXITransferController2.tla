------------------------ MODULE AXITransferController2 ------------------------
(***************************************************************************)
(* hardware/src/AXITransferController2.v: the burst with which a write of   *)
(* in_length bytes at in_address continues.  The module is combinatorial:   *)
(* the state machine that uses it is SimpleAXIToAXIWrite2's.  The generate  *)
(* branches for AXI_DATA_W 32 to 512 are one formula over STROBE_W.         *)
(***************************************************************************)
EXTENDS Integers

CONSTANTS STROBE_W,    \* AXI_DATA_W / 8
          AXI_LEN_W,   \* width of axlen, 1 to 8 (iob_versat.py:331)
          Page,        \* 13'h1000 in the code
          None,        \* no word, no request, no burst
          Writes       \* the <<address, length>> pairs asked for

VARIABLES reg_address, reg_length   \* what a write still has to cover, kept by the caller

MaxBeats == 2^AXI_LEN_W

ASSUME BusAssumption ==
  /\ STROBE_W \in {4, 8, 16, 32, 64}
  /\ AXI_LEN_W \in 1 .. 8
  /\ Page \in Nat \ {0}
  /\ Page % STROBE_W = 0
  /\ None \notin Nat

Min2(a, b) == IF a < b THEN a ELSE b

\* On buses of 256 and 512 bits AXI_LEN_W is not looked at (lines 84-91).
const_max_transfer_len == IF STROBE_W >= 32 THEN Page ELSE Min2(MaxBeats * STROBE_W, Page)

misalign_amount(address) == address % STROBE_W

\* ext_length: the length, saturated to more than a page (line 108).
ext_length(length) == (IF length >= Page THEN Page ELSE 0) + (length % Page)

comb_size_to_next_boundary(address) == Page - (address % Page)

\* The bytes of the first word that are written (lines 163-178).
comb_initial_strb_count(address, length) ==
  IF length >= STROBE_W - misalign_amount(address)
    THEN STROBE_W - misalign_amount(address)
    ELSE length % STROBE_W

is_next_boundary_limited(address, length) ==
  /\ ext_length(length) >= comb_size_to_next_boundary(address)
  /\ comb_size_to_next_boundary(address) < const_max_transfer_len

is_max_transfer_len_limited(address, length) ==
  /\ ext_length(length) >= const_max_transfer_len
  /\ const_max_transfer_len < comb_size_to_next_boundary(address)

\* Mutated: a full burst that starts inside a word is counted as full.
out_transfer_offset_Unshifted(address, length) ==
  CASE is_next_boundary_limited(address, length) ->
         comb_size_to_next_boundary(address)
    [] is_max_transfer_len_limited(address, length) -> const_max_transfer_len
    [] OTHER -> ext_length(length)

\* Bytes by which the address advances.
out_transfer_offset(address, length) ==
  CASE is_next_boundary_limited(address, length) ->
         comb_size_to_next_boundary(address)
    [] is_max_transfer_len_limited(address, length) ->
         const_max_transfer_len
           - (IF misalign_amount(address) = 0 THEN 0
              ELSE STROBE_W - comb_initial_strb_count(address, length))
    [] OTHER -> ext_length(length)

\* The places at which a burst of the write t may start: in its first page every
\* longest burst from its first word on, and anywhere in a later page.
StartsBurst(t, b) ==
  \/ b >= t[1] + comb_size_to_next_boundary(t[1])
  \/ (b - (t[1] - misalign_amount(t[1]))) % const_max_transfer_len = 0

\* The writes the module cuts right: no burst of them starts exactly a longest
\* burst before a page boundary with more than that to go, and the first burst, if
\* it is not cut but starts inside a word, does not need a word more than the
\* longest burst has.
WriteFits(t) ==
  /\ \A n \in 1 .. (t[1] + t[2] - 1) \div Page :
       LET b == n * Page - const_max_transfer_len
       IN ~(b >= t[1] /\ StartsBurst(t, b))
  /\ \/ misalign_amount(t[1]) = 0
     \/ misalign_amount(t[1]) + t[2] <= const_max_transfer_len
     \/ t[2] >= Min2(const_max_transfer_len, comb_size_to_next_boundary(t[1]))

out_last_transfer(address, length) == out_transfer_offset(address, length) = length

\* Beats less one (lines 189-210): saturated at 8 bits, cut to AXI_LEN_W.
beatsNeeded(address, length) ==
  (out_transfer_offset(address, length) + misalign_amount(address) + STROBE_W - 1)
    \div STROBE_W

out_axi_axlen(address, length) ==
  (IF length = 0 THEN 0
   ELSE IF beatsNeeded(address, length) >= 256 THEN 255
   ELSE beatsNeeded(address, length) - 1) % MaxBeats

\* The lanes of a word that the first and the last beat write (lines 163-231).
Lanes == 0 .. STROBE_W - 1

out_initial_strb(address, length) ==
  {i \in Lanes : /\ i >= misalign_amount(address)
                 /\ i < misalign_amount(address) + comb_initial_strb_count(address, length)}

offset_remaining(address, length) ==
  (out_transfer_offset(address, length) - comb_initial_strb_count(address, length)) % STROBE_W

out_final_strb(address, length) ==
  IF offset_remaining(address, length) = 0 THEN Lanes
  ELSE {i \in Lanes : i < offset_remaining(address, length)}
===============================================================================
