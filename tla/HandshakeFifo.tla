---------------------------- MODULE HandshakeFifo ----------------------------
(***************************************************************************)
(* What every valid/ready buffer of hardware/src promises its two sides: a *)
(* bounded queue that delivers each accepted word once and in order, and   *)
(* that a reset empties, and nothing else does.  SkidBuffer and            *)
(* MemoryReader are shown to implement it.                                 *)
(*                                                                         *)
(* One step is one clock edge.  accepted and delivered record the word that*)
(* crossed each interface during the cycle that ends at the edge, or NoData*)
(* when none did; wasReset whether the buffer was told, in that cycle, to  *)
(* reset (rst_i or forceReset).                                            *)
(***************************************************************************)
EXTENDS Naturals, Sequences

CONSTANTS Data,      \* the words that may be transferred
          NoData,    \* no transfer in this cycle
          Capacity   \* how many accepted words may be undelivered

VARIABLES queue, accepted, delivered, wasReset

fifoVars == <<queue, accepted, delivered, wasReset>>

Word(w) == IF w = NoData THEN <<>> ELSE <<w>>

FifoTypeOK ==
  /\ queue \in Seq(Data)
  /\ accepted \in Data \cup {NoData}
  /\ delivered \in Data \cup {NoData}
  /\ wasReset \in BOOLEAN

FifoInit ==
  /\ queue = <<>>
  /\ accepted = NoData
  /\ delivered = NoData
  /\ ~wasReset

\* What is left when the consumer takes a word (take) or does not.
Remaining(take) == IF take THEN Tail(queue) ELSE queue

\* A cycle without a reset: the consumer may take the oldest word while the producer hands
\* over a new one, provided the buffer never holds more than Capacity words.
Cycle(take) ==
  /\ ~wasReset'
  /\ take => queue # <<>>
  /\ queue' = Remaining(take) \o Word(accepted')
  /\ Len(queue') <= Capacity
  /\ delivered' = IF take THEN Head(queue) ELSE NoData

\* A cycle in which the buffer is also reset: everything it holds is dropped,
\* together with a word that is handed over in that very cycle.
Flush(take) ==
  /\ wasReset'
  /\ take => queue # <<>>
  /\ queue' = <<>>
  /\ delivered' = IF take THEN Head(queue) ELSE NoData

\* Whatever word the producer hands over, if any, and whether or not the buffer
\* is told to reset.
FifoNext ==
  /\ accepted' \in Data \cup {NoData}
  /\ wasReset' \in BOOLEAN
  /\ \E take \in BOOLEAN : Cycle(take) \/ Flush(take)

FifoSpec == FifoInit /\ [][FifoNext]_fifoVars
=============================================================================
