----------------------------- MODULE AxiTransfer -----------------------------
(***************************************************************************)
(* What moving length bytes at address over AXI means: a sequence of bursts *)
(* that cover exactly these bytes in order, none of which crosses a page    *)
(* boundary or is longer than a burst may be.  AXITransferController and    *)
(* AXITransferController2 compute such sequences.                           *)
(***************************************************************************)
EXTENDS Integers

CONSTANTS STROBE_W,   \* bytes of a bus word, AXI_DATA_W / 8
          MaxBeats,   \* longest burst, 2 ** AXI_LEN_W
          Page,       \* a burst stays within a page of this many bytes
          None

VARIABLES todoAddress, todoLength,   \* the bytes not yet covered
          burst                      \* the last burst issued, or None

transferVars == <<todoAddress, todoLength, burst>>

Aligned(a) == a - (a % STROBE_W)

\* Words of the bus that hold the n bytes at address a.
Beats(a, n) == ((a % STROBE_W) + n + STROBE_W - 1) \div STROBE_W

TransferInit ==
  /\ todoAddress = 0
  /\ todoLength = 0
  /\ burst = None

Start ==
  /\ todoLength = 0
  /\ todoAddress' \in Nat
  /\ todoLength' \in Nat \ {0}
  /\ burst' = None

\* A burst moves the next bytes: the beats it asks for are those that hold
\* them, from the word of the first byte on.
Burst ==
  LET n == todoLength - todoLength' IN
  /\ todoLength' \in 0 .. todoLength - 1
  /\ todoAddress' = todoAddress + n
  /\ burst' = [word |-> Aligned(todoAddress), beats |-> Beats(todoAddress, n)]
  /\ burst'.beats <= MaxBeats
  /\ (todoAddress % Page) + n <= Page

TransferNext == Start \/ Burst

TransferSpec == TransferInit /\ [][TransferNext]_transferVars
=============================================================================
