----------------------------- MODULE SkidBuffer ------------------------------
(***************************************************************************)
(* hardware/src/SkidBuffer.v: a two-word valid/ready buffer whose ready and *)
(* valid outputs depend on its registers only.  The second word absorbs the *)
(* transfer that is accepted in the cycle the consumer stalls.              *)
(*                                                                         *)
(* A step is a clock edge.  The inputs of the cycle are the word offered    *)
(* (in, NoData when in_valid_i is low), out_ready_i and forceReset.         *)
(***************************************************************************)
EXTENDS Naturals, Sequences

CONSTANTS Data,     \* the words
          NoData    \* no word

VARIABLES state,               \* EMPTY, DATA or EXTRA
          data_stored,         \* the word at the output
          extra_data_stored,   \* the word behind it
          accepted,            \* the word taken in by the last cycle
          delivered,           \* the word handed out by the last cycle
          wasReset             \* forceReset, or rst_i, of the last cycle

vars == <<state, data_stored, extra_data_stored, accepted, delivered, wasReset>>

States == {"EMPTY", "DATA", "EXTRA"}

in_ready_o  == state \in {"EMPTY", "DATA"}
out_valid_o == state \in {"DATA", "EXTRA"}

TypeOK ==
  /\ state \in States
  /\ data_stored \in Data \cup {NoData}
  /\ extra_data_stored \in Data \cup {NoData}
  /\ accepted \in Data \cup {NoData}
  /\ delivered \in Data \cup {NoData}
  /\ wasReset \in BOOLEAN

Init ==
  /\ state = "EMPTY"
  /\ data_stored = NoData
  /\ extra_data_stored = NoData
  /\ accepted = NoData
  /\ delivered = NoData
  /\ wasReset = FALSE

\* The transfers of a cycle, as both sides see them.
Ports(in, out_ready) ==
  /\ accepted' = IF in_ready_o THEN in ELSE NoData
  /\ delivered' = IF out_valid_o /\ out_ready THEN data_stored ELSE NoData

\* forceReset overrides the next state, not the data registers.
Enter(s, forceReset) == state' = IF forceReset THEN "EMPTY" ELSE s

\* EMPTY: out_transfer cannot occur.
CycleEmpty(in, out_ready, forceReset) ==
  /\ state = "EMPTY"
  /\ Ports(in, out_ready)
  /\ \/ /\ in = NoData
        /\ Enter("EMPTY", forceReset)
        /\ UNCHANGED data_stored
     \/ /\ in # NoData
        /\ Enter("DATA", forceReset)
        /\ data_stored' = in
  /\ UNCHANGED extra_data_stored

\* Mutated: a cycle without a word from the producer empties the buffer, whether
\* or not the consumer takes the word.
CycleData_DropsStalled(in, out_ready, forceReset) ==
  /\ state = "DATA"
  /\ Ports(in, out_ready)
  /\ \/ /\ in = NoData
        /\ Enter("EMPTY", forceReset)
        /\ UNCHANGED <<data_stored, extra_data_stored>>
     \/ /\ in # NoData /\ ~out_ready
        /\ Enter("EXTRA", forceReset)
        /\ extra_data_stored' = in
        /\ UNCHANGED data_stored
     \/ /\ in # NoData /\ out_ready
        /\ Enter("DATA", forceReset)
        /\ data_stored' = in
        /\ UNCHANGED extra_data_stored

CycleData(in, out_ready, forceReset) ==
  /\ state = "DATA"
  /\ Ports(in, out_ready)
  /\ \/ /\ in = NoData /\ ~out_ready
        /\ Enter("DATA", forceReset)
        /\ UNCHANGED <<data_stored, extra_data_stored>>
     \/ /\ in = NoData /\ out_ready
        /\ Enter("EMPTY", forceReset)
        /\ UNCHANGED <<data_stored, extra_data_stored>>
     \/ /\ in # NoData /\ ~out_ready
        /\ Enter("EXTRA", forceReset)
        /\ extra_data_stored' = in
        /\ UNCHANGED data_stored
     \/ /\ in # NoData /\ out_ready
        /\ Enter("DATA", forceReset)
        /\ data_stored' = in
        /\ UNCHANGED extra_data_stored

\* EXTRA: in_transfer cannot occur.
CycleExtra(in, out_ready, forceReset) ==
  /\ state = "EXTRA"
  /\ Ports(in, out_ready)
  /\ \/ /\ ~out_ready
        /\ Enter("EXTRA", forceReset)
        /\ UNCHANGED data_stored
     \/ /\ out_ready
        /\ Enter("DATA", forceReset)
        /\ data_stored' = extra_data_stored
  /\ UNCHANGED extra_data_stored

\* A clock edge, whatever the state.
Clock(in, out_ready, forceReset) ==
  /\ wasReset' = forceReset
  /\ \/ CycleEmpty(in, out_ready, forceReset)
     \/ CycleData(in, out_ready, forceReset)
     \/ CycleExtra(in, out_ready, forceReset)

\* rst_i is asynchronous: no transfer completes.
Reset ==
  /\ state' = "EMPTY"
  /\ data_stored' = NoData
  /\ extra_data_stored' = NoData
  /\ accepted' = NoData
  /\ delivered' = NoData
  /\ wasReset' = TRUE

Next ==
  \/ \E in \in Data \cup {NoData}, out_ready, forceReset \in BOOLEAN :
       Clock(in, out_ready, forceReset)
  \/ Reset

Spec == Init /\ [][Next]_vars

-----------------------------------------------------------------------------
\* The words held, oldest first: the refinement mapping to a two-place queue.
Held ==
  CASE state = "EMPTY" -> <<>>
    [] state = "DATA"  -> <<data_stored>>
    [] state = "EXTRA" -> <<data_stored, extra_data_stored>>

Fifo == INSTANCE HandshakeFifo WITH queue <- Held, Capacity <- 2

\* The buffer neither loses, duplicates nor reorders a word, whatever the
\* stalls of the two sides: it is a two-place queue (SkidBuffer.v:3-7), and
\* only a reset empties it (SkidBuffer.v:42-45, 80-82).
ImplementsFifo == Fifo!FifoSpec

\* "keeping a throughput of 1" (SkidBuffer.v:3): the buffer refuses a word only
\* after a cycle in which the consumer refused one, so a consumer that never
\* stalls never makes the producer stall.
StallsOnlyAfterConsumer ==
  [][ (in_ready_o /\ ~in_ready_o') => (delivered' = NoData /\ state = "DATA") ]_vars
=============================================================================
