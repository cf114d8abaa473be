-------------------------- MODULE SkidBuffer_proofs --------------------------
(***************************************************************************)
(* SkidBuffer is type correct and implements a two-place queue, for every   *)
(* set of words.                                                            *)
(***************************************************************************)
EXTENDS SkidBuffer, SequenceTheorems, TLAPS

\* The registers the state says are in use hold words.
Stored ==
  /\ state \in {"DATA", "EXTRA"} => data_stored \in Data
  /\ state = "EXTRA" => extra_data_stored \in Data

IInv == TypeOK /\ Stored

\* Every clock edge keeps the registers well formed (SkidBuffer.v:38-83).
LEMMA Inductive == IInv /\ [Next]_vars => IInv'
<1> SUFFICES ASSUME IInv, [Next]_vars PROVE IInv'
  OBVIOUS
<1> USE DEF IInv, TypeOK, Stored, States
<1>1. ASSUME NEW in \in Data \cup {NoData}, NEW out_ready \in BOOLEAN,
             NEW forceReset \in BOOLEAN, Clock(in, out_ready, forceReset)
      PROVE  IInv'
  <2>1. /\ accepted' \in Data \cup {NoData} /\ delivered' \in Data \cup {NoData}
        /\ wasReset' \in BOOLEAN
    BY <1>1 DEF Clock, CycleEmpty, CycleData, CycleExtra, Ports, out_valid_o
  <2>2. CASE CycleEmpty(in, out_ready, forceReset)
    BY <1>1, <2>1, <2>2 DEF CycleEmpty, Enter
  <2>3. CASE CycleData(in, out_ready, forceReset)
    BY <1>1, <2>1, <2>3 DEF CycleData, Enter
  <2>4. CASE CycleExtra(in, out_ready, forceReset)
    BY <1>1, <2>1, <2>4 DEF CycleExtra, Enter
  <2>5. QED BY <1>1, <2>2, <2>3, <2>4 DEF Clock
<1>2. CASE Reset
  BY <1>2 DEF Reset
<1>3. CASE UNCHANGED vars
  BY <1>3 DEF vars
<1>4. QED BY <1>1, <1>2, <1>3 DEF Next

LEMMA Start == Init => IInv
BY DEF Init, IInv, TypeOK, Stored, States

\* The registers hold what the state says (TypeOK of the run SkidBuffer).
THEOREM TypeCorrect == Spec => []TypeOK
<1>1. Init => IInv BY Start
<1>2. IInv /\ [Next]_vars => IInv' BY Inductive
<1>3. IInv => TypeOK BY DEF IInv
<1>4. QED BY <1>1, <1>2, <1>3, PTL DEF Spec

-----------------------------------------------------------------------------
\* What the queue operations are on at most two words.
LEMMA PairOfSingles ==
  ASSUME NEW x \in Data, NEW y \in Data
  PROVE  <<x>> \o <<y>> = <<x, y>>
<1>1. <<x>> \in Seq(Data) /\ <<y>> \in Seq(Data) /\ <<x, y>> \in Seq(Data)
  OBVIOUS
<1>2. Len(<<x>>) = 1 /\ Len(<<y>>) = 1 /\ Len(<<x, y>>) = 2
  OBVIOUS
<1>3. /\ <<x>> \o <<y>> \in Seq(Data)
      /\ Len(<<x>> \o <<y>>) = 2
      /\ \A i \in 1 .. 2 : (<<x>> \o <<y>>)[i] = IF i <= 1 THEN <<x>>[i] ELSE <<y>>[i - 1]
  BY <1>1, <1>2, ConcatProperties
<1>4. \A i \in 1 .. 2 : (<<x>> \o <<y>>)[i] = <<x, y>>[i]
  BY <1>3
<1>5. QED
  BY <1>1, <1>2, <1>3, <1>4, SeqEqual

LEMMA QueueFacts ==
  ASSUME NEW x \in Data, NEW y \in Data
  PROVE  /\ Head(<<x>>) = x /\ Tail(<<x>>) = <<>>
         /\ Head(<<x, y>>) = x /\ Tail(<<x, y>>) = <<y>>
         /\ <<>> \o <<x>> = <<x>> /\ <<>> \o <<>> = <<>>
         /\ <<x>> \o <<>> = <<x>> /\ <<x>> \o <<y>> = <<x, y>>
         /\ <<x, y>> \o <<>> = <<x, y>>
         /\ Len(<<>>) <= 2 /\ Len(<<x>>) <= 2 /\ Len(<<x, y>>) <= 2
         /\ <<x>> # <<>> /\ <<x, y>> # <<>>
<1>1. Head(<<x>>) = x /\ Tail(<<x>>) = <<>>
  OBVIOUS
<1>2. Head(<<x, y>>) = x /\ Tail(<<x, y>>) = <<y>>
  OBVIOUS
<1>3. <<>> \o <<x>> = <<x>> /\ <<>> \o <<>> = <<>>
  OBVIOUS
<1>4. <<x>> \o <<>> = <<x>> /\ <<x, y>> \o <<>> = <<x, y>>
  OBVIOUS
<1>5. Len(<<>>) <= 2 /\ Len(<<x>>) <= 2 /\ Len(<<x, y>>) <= 2
  OBVIOUS
<1>6. <<x>> # <<>> /\ <<x, y>> # <<>>
  OBVIOUS
<1>7. QED BY <1>1, <1>2, <1>3, <1>4, <1>5, <1>6, PairOfSingles

LEMMA InitRefines == Init => Fifo!FifoInit
BY DEF Init, Fifo!FifoInit, Held

\* A clock edge is a cycle of the queue, or a flush of it when forceReset is up.
LEMMA StepRefines == IInv /\ IInv' /\ [Next]_vars => [Fifo!FifoNext]_(Fifo!fifoVars)
<1> SUFFICES ASSUME IInv, IInv', [Next]_vars
             PROVE  [Fifo!FifoNext]_(Fifo!fifoVars)
  OBVIOUS
<1>1. ASSUME NEW in \in Data \cup {NoData}, NEW out_ready \in BOOLEAN,
             NEW forceReset \in BOOLEAN, Clock(in, out_ready, forceReset)
      PROVE  Fifo!FifoNext
  <2> DEFINE w == IF in_ready_o THEN in ELSE NoData
             take == out_valid_o /\ out_ready
  <2>1. w \in Data \cup {NoData} /\ take \in BOOLEAN
    BY DEF out_valid_o
  <2>2. accepted' = w /\ delivered' = IF take THEN data_stored ELSE NoData
    BY <1>1 DEF Clock, CycleEmpty, CycleData, CycleExtra, Ports
  <2>3. take => Held # <<>> /\ Head(Held) = data_stored
    BY QueueFacts DEF Held, out_valid_o, IInv, Stored
  <2>4. CASE forceReset
    <3>1. state' = "EMPTY"
      BY <1>1, <2>4 DEF Clock, CycleEmpty, CycleData, CycleExtra, Enter
    <3>2. Held' = <<>> /\ wasReset' = TRUE
      BY <1>1, <2>4, <3>1 DEF Held, Clock
    <3>3. Fifo!Flush(take)
      BY <2>2, <2>3, <3>2 DEF Fifo!Flush
    <3>4. QED BY <2>1, <2>2, <3>2, <3>3 DEF Fifo!FifoNext
  <2>5. CASE ~forceReset
    <3>1. Held' = Fifo!Remaining(take) \o Fifo!Word(w) /\ Len(Held') <= 2
      <4>1. CASE CycleEmpty(in, out_ready, forceReset)
        <5>1. state = "EMPTY" /\ Held = <<>> /\ w = in /\ ~take
          BY <4>1 DEF CycleEmpty, Held, in_ready_o, out_valid_o
        <5>2. Held' = IF in = NoData THEN <<>> ELSE <<in>>
          BY <2>5, <4>1 DEF CycleEmpty, Enter, Held
        <5>3. QED BY <5>1, <5>2, QueueFacts DEF Fifo!Remaining, Fifo!Word
      <4>2. CASE CycleData(in, out_ready, forceReset)
        <5>1. /\ state = "DATA" /\ Held = <<data_stored>> /\ data_stored \in Data
              /\ w = in /\ take = out_ready
          BY <4>2 DEF CycleData, Held, IInv, Stored, in_ready_o, out_valid_o
        <5>2. CASE in = NoData /\ ~out_ready
          <6>1. Held' = <<data_stored>>
            BY <2>5, <4>2, <5>2 DEF CycleData, Enter, Held
          <6>2. QED BY <5>1, <5>2, <6>1, QueueFacts DEF Fifo!Remaining, Fifo!Word
        <5>3. CASE in = NoData /\ out_ready
          <6>1. Held' = <<>>
            BY <2>5, <4>2, <5>3 DEF CycleData, Enter, Held
          <6>2. QED BY <5>1, <5>3, <6>1, QueueFacts DEF Fifo!Remaining, Fifo!Word
        <5>4. CASE in # NoData /\ ~out_ready
          <6>1. Held' = <<data_stored, in>>
            BY <2>5, <4>2, <5>4 DEF CycleData, Enter, Held
          <6>2. QED BY <5>1, <5>4, <6>1, QueueFacts DEF Fifo!Remaining, Fifo!Word
        <5>5. CASE in # NoData /\ out_ready
          <6>1. Held' = <<in>>
            BY <2>5, <4>2, <5>5 DEF CycleData, Enter, Held
          <6>2. QED BY <5>1, <5>5, <6>1, QueueFacts DEF Fifo!Remaining, Fifo!Word
        <5>6. QED BY <5>2, <5>3, <5>4, <5>5
      <4>3. CASE CycleExtra(in, out_ready, forceReset)
        <5>1. /\ state = "EXTRA" /\ w = NoData /\ take = out_ready
              /\ data_stored \in Data /\ extra_data_stored \in Data
          BY <4>3 DEF CycleExtra, IInv, Stored, in_ready_o, out_valid_o
        <5>2. Held = <<data_stored, extra_data_stored>>
          BY <5>1 DEF Held
        <5>3. Held' = IF out_ready THEN <<extra_data_stored>>
                                  ELSE <<data_stored, extra_data_stored>>
          BY <2>5, <4>3 DEF CycleExtra, Enter, Held
        <5>4. QED BY <5>1, <5>2, <5>3, QueueFacts DEF Fifo!Remaining, Fifo!Word
      <4>4. QED BY <1>1, <4>1, <4>2, <4>3 DEF Clock
    <3>2. wasReset' = FALSE
      BY <1>1, <2>5 DEF Clock
    <3>3. Fifo!Cycle(take)
      BY <2>2, <2>3, <3>1, <3>2 DEF Fifo!Cycle
    <3>4. QED BY <2>1, <2>2, <3>2, <3>3 DEF Fifo!FifoNext
  <2>6. QED BY <2>4, <2>5
<1>2. CASE Reset
  <2>1. Held' = <<>> /\ accepted' = NoData /\ delivered' = NoData /\ wasReset' = TRUE
    BY <1>2 DEF Reset, Held
  <2>2. Fifo!Flush(FALSE)
    BY <2>1 DEF Fifo!Flush
  <2>3. QED BY <2>1, <2>2 DEF Fifo!FifoNext
<1>3. CASE UNCHANGED vars
  BY <1>3 DEF vars, Fifo!fifoVars, Held
<1>4. QED BY <1>1, <1>2, <1>3 DEF Next

LEMMA AlwaysWellFormed == Spec => []IInv
<1>1. Init => IInv BY Start
<1>2. IInv /\ [Next]_vars => IInv' BY Inductive
<1>3. QED BY <1>1, <1>2, PTL DEF Spec

\* No word is lost, duplicated or reordered, but for those held when the buffer is
\* told to reset (SkidBuffer.v:3-7, 42-45, 80-82).
THEOREM SkidBufferIsFifo == Spec => ImplementsFifo
<1>1. Init => Fifo!FifoInit BY InitRefines
<1>2. Spec => []IInv BY AlwaysWellFormed
<1>3. IInv /\ IInv' /\ [Next]_vars => [Fifo!FifoNext]_(Fifo!fifoVars) BY StepRefines
<1>4. QED BY <1>1, <1>2, <1>3, PTL DEF Spec, ImplementsFifo, Fifo!FifoSpec

\* The buffer refuses a word only after its consumer refused one
\* (SkidBuffer.v:3).
THEOREM StallsLate == Spec => StallsOnlyAfterConsumer
<1>1. [Next]_vars => [(in_ready_o /\ ~in_ready_o') => (delivered' = NoData /\ state = "DATA")]_vars
  <2> SUFFICES ASSUME Next, in_ready_o, ~in_ready_o'
               PROVE  delivered' = NoData /\ state = "DATA"
    OBVIOUS
  <2>1. ~Reset
    BY DEF Reset, in_ready_o
  <2>2. PICK in \in Data \cup {NoData}, out_ready \in BOOLEAN, forceReset \in BOOLEAN :
          Clock(in, out_ready, forceReset)
    BY <2>1 DEF Next
  <2>3. QED
    BY <2>2 DEF Clock, CycleEmpty, CycleData, CycleExtra, Enter, Ports, in_ready_o, out_valid_o
<1>2. QED BY <1>1, PTL DEF Spec, StallsOnlyAfterConsumer
=============================================================================
