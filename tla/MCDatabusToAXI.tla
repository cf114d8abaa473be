---------------------------- MODULE MCDatabusToAXI ----------------------------
(***************************************************************************)
(* The two sides between the databus and AXI, of which a behaviour exercises*)
(* one: a sequence of reads and one of writes clock edge by clock edge, with *)
(* bursts of two words (AXI_LEN_W = 1, the least iob_versat.py:331 allows)   *)
(* and a page of four, so that transfers of a few words are cut by either.   *)
(* Reads and writes use channels of their own and share no register.         *)
(***************************************************************************)
EXTENDS SimpleAXIToAXIRead, SimpleAXIToAXIWrite2

VARIABLE part    \* the part the behaviour is about

All == (0 .. 15) \X (1 .. 18)

Words(n) == (n + STROBE_W - 1) \div STROBE_W

\* Those the controllers cut right, and of the writes those that touch no more bus
\* words than their bytes fill.
UnitReads  == {t \in All : ReadFits(t)}
UnitWrites == {t \in All : WriteFits(t) /\ Words(misalign_amount(t[1]) + t[2]) = Words(t[2])}

ASSUME InstanceAssumption ==
  /\ STROBE_W = 4
  /\ Reads \cup Writes \subseteq Nat \X (1 .. 2^LEN_W - 1)

-----------------------------------------------------------------------------
PartsInit ==
  /\ part \in {"read", "write"}
  /\ ReadInit
  /\ WriteInit

PartsNext ==
  /\ UNCHANGED part
  /\ \/ part = "read" /\ ReadNext /\ UNCHANGED writeVars
     \/ part = "write" /\ WriteNext /\ UNCHANGED readVars

\* The fairness of each part is its own.
PartsSpec ==
  /\ PartsInit
  /\ [][PartsNext]_<<part, readVars, writeVars>>
  /\ WF_readVars(part = "read" /\ ReadEdge(TRUE, TRUE))
  /\ WF_writeVars(part = "write" /\ WriteEdge(TRUE, TRUE, state_transfer_running))

\* A read and a write come to their end, when the memory answers.
TransfersServed == ReadServed /\ WriteServed

-----------------------------------------------------------------------------
(* Transfers the parts above leave out: reads at any byte, within one page   *)
(* but longer than a burst, and after such a read went wrong aligned writes, *)
(* of which a burst may start exactly one longest burst before a page        *)
(* boundary.                                                                 *)

UnalignedLong == {t \in All : (t[1] % Page) + t[2] <= Page}
AlignedWrites == {0, 4, 8, 12} \X {4, 8, 12, 16, 20}

AskedSpec ==
  /\ part = "asked" /\ ReadInit /\ WriteInit
  /\ [][ /\ UNCHANGED part
         /\ \/ ReadNext /\ UNCHANGED writeVars
            \/ ~LastOnLastWord /\ WriteNext /\ UNCHANGED readVars
       ]_<<part, readVars, writeVars>>

\* The bytes by which a write goes on are bytes that the beats of its burst hold.
BurstCovers ==
  state_transfer_running =>
    misalign_amount(reg_address) + out_transfer_offset(reg_address, reg_length)
      <= (axi_awlen_o + 1) * STROBE_W

\* "The outside code expects the same number of transfers for the same length"
\* (SimpleAXIToAXIRead.v:18-23), and a burst is as long as "decrementing length by this value"
\* (AXITransferController2.v:21) says: not both channels do otherwise.
SomeTransferAsAsked == LastOnLastWord \/ BurstCovers
===============================================================================
