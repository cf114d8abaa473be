-------------------------- MODULE JoinTwoHandshakes --------------------------
(***************************************************************************)
(* hardware/src/JoinTwoHandshakes.v: two SkidBuffers, one per input stream, *)
(* whose outputs leave together.  VRead pairs the address stream with the   *)
(* words of the databus this way, so a pairing that slips writes a word to  *)
(* a neighbour's address.                                                   *)
(***************************************************************************)
EXTENDS Naturals, Sequences

CONSTANTS FirstData, SecondData, NoData

ASSUME JoinAssumption == NoData \notin FirstData \cup SecondData

VARIABLES first_state, first_data, first_extra,      \* firstBuffer
          second_state, second_data, second_extra,   \* secondBuffer
          acceptedFirst, acceptedSecond,             \* transfers of the last cycle
          result_first, result_second,
          wasReset                                   \* both are told to reset together

firstVars  == <<first_state, first_data, first_extra, acceptedFirst, result_first, wasReset>>
secondVars == <<second_state, second_data, second_extra, acceptedSecond, result_second, wasReset>>
joinVars == <<firstVars, secondVars>>

firstBuffer == INSTANCE SkidBuffer
  WITH Data <- FirstData, state <- first_state, data_stored <- first_data,
       extra_data_stored <- first_extra,
       accepted <- acceptedFirst, delivered <- result_first

secondBuffer == INSTANCE SkidBuffer
  WITH Data <- SecondData, state <- second_state, data_stored <- second_data,
       extra_data_stored <- second_extra,
       accepted <- acceptedSecond, delivered <- result_second

JoinTypeOK == firstBuffer!TypeOK /\ secondBuffer!TypeOK

JoinInit == firstBuffer!Init /\ secondBuffer!Init

result_valid_o == firstBuffer!out_valid_o /\ secondBuffer!out_valid_o

\* Mutated: the second waits until the first is full.
JoinClock_WaitFull(in1, in2, result_ready, forceReset) ==
  /\ firstBuffer!Clock(in1, result_ready /\ secondBuffer!out_valid_o, forceReset)
  /\ secondBuffer!Clock(in2, result_ready /\ ~firstBuffer!in_ready_o, forceReset)

\* A clock edge: each buffer is asked for its word only if the other has one.
JoinClock(in1, in2, result_ready, forceReset) ==
  /\ firstBuffer!Clock(in1, result_ready /\ secondBuffer!out_valid_o, forceReset)
  /\ secondBuffer!Clock(in2, result_ready /\ firstBuffer!out_valid_o, forceReset)

JoinReset == firstBuffer!Reset /\ secondBuffer!Reset

JoinNext ==
  \/ \E in1 \in FirstData \cup {NoData}, in2 \in SecondData \cup {NoData},
        result_ready, forceReset \in BOOLEAN :
       JoinClock(in1, in2, result_ready, forceReset)
  \/ JoinReset

\* During a run forceReset is low (VRead.v:308).
JoinRunning ==
  \E in1 \in FirstData \cup {NoData}, in2 \in SecondData \cup {NoData},
     result_ready \in BOOLEAN : JoinClock(in1, in2, result_ready, FALSE)

\* The clock never stops, and again and again both producers offer a word in a
\* cycle in which the consumer is ready.
BothServed == \E in1 \in FirstData, in2 \in SecondData : JoinClock(in1, in2, TRUE, FALSE)

JoinSpec == JoinInit /\ [][JoinNext]_joinVars /\ WF_joinVars(BothServed)

-----------------------------------------------------------------------------
\* Neither stream loses, repeats or reorders a word while it waits for the
\* other, but for the words that a reset drops: each buffer is a two-place queue
\* (JoinTwoHandshakes.v:29-61).
EachInOrder == firstBuffer!ImplementsFifo /\ secondBuffer!ImplementsFifo

\* A buffer refuses a word only after a cycle in which its consumer took none:
\* the join costs the faster side nothing but the waiting for the slower one.
StallsLate ==
  firstBuffer!StallsOnlyAfterConsumer /\ secondBuffer!StallsOnlyAfterConsumer

\* The k-th word of one stream leaves with the k-th of the other: both leave in
\* the same cycle or neither does, and only when the consumer is shown both.
LeaveTogether ==
  [][ /\ (result_first' = NoData) <=> (result_second' = NoData)
      /\ result_first' # NoData => result_valid_o ]_joinVars

\* The two buffers, each waiting for the other's word before it gives its own,
\* do not wait on each other for ever: once resets cease, pairs keep leaving.
PairsKeepComing ==
  <>[][JoinRunning]_joinVars => []<>(result_first # NoData /\ result_second # NoData)
=============================================================================
