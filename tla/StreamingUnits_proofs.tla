------------------------- MODULE StreamingUnits_proofs -------------------------
(***************************************************************************)
(* What the parts of a streaming unit promise for every value of their       *)
(* parameters.  The join of two streams: its buffers stay two-place queues    *)
(* although each waits for the other, and words leave in pairs; the facts     *)
(* about one buffer are SkidBuffer_proofs', instantiated.  The address        *)
(* generator: it visits every nest of loops the compiler may give it point    *)
(* by point, and stores every address once.                                  *)
(*                                                                         *)
(* For the generator the point I[k] at which the loops from the k-th outwards *)
(* stand, and the sum A[k] of their terms there, are carried along with the   *)
(* counters (Chain): counter k stands at I[k] % size, and the bases and the   *)
(* address registers are the start plus one of the A[k].  A counter that      *)
(* moves on adds one to I[k] of every loop up to it, and what the registers    *)
(* add is just what the A[k] change by.                                      *)
(***************************************************************************)
EXTENDS JoinTwoHandshakes, SuperAddress, SequenceTheorems, WellFoundedInduction, TLAPS

-----------------------------------------------------------------------------
(* The join.                                                                *)

first == INSTANCE SkidBuffer_proofs
  WITH Data <- FirstData, state <- first_state, data_stored <- first_data,
       extra_data_stored <- first_extra,
       accepted <- acceptedFirst, delivered <- result_first

second == INSTANCE SkidBuffer_proofs
  WITH Data <- SecondData, state <- second_state, data_stored <- second_data,
       extra_data_stored <- second_extra,
       accepted <- acceptedSecond, delivered <- result_second

\* Each buffer of the join makes only the steps a buffer makes by itself.
LEMMA BuffersStep ==
  [JoinNext]_joinVars => [first!Next]_(first!vars) /\ [second!Next]_(second!vars)
<1> SUFFICES ASSUME [JoinNext]_joinVars
             PROVE  [first!Next]_(first!vars) /\ [second!Next]_(second!vars)
  OBVIOUS
<1>1. CASE UNCHANGED joinVars
  BY <1>1 DEF joinVars, firstVars, secondVars, first!vars, second!vars
<1>2. CASE JoinReset
  BY <1>2 DEF JoinReset, firstBuffer!Reset, secondBuffer!Reset,
              first!Next, first!Reset, second!Next, second!Reset
<1>3. ASSUME NEW in1 \in FirstData \cup {NoData}, NEW in2 \in SecondData \cup {NoData},
             NEW result_ready \in BOOLEAN, NEW forceReset \in BOOLEAN,
             JoinClock(in1, in2, result_ready, forceReset)
      PROVE  first!Next /\ second!Next
  <2> DEFINE ready1 == result_ready /\ secondBuffer!out_valid_o
             ready2 == result_ready /\ firstBuffer!out_valid_o
  <2>1. ready1 \in BOOLEAN /\ ready2 \in BOOLEAN
    BY DEF secondBuffer!out_valid_o, firstBuffer!out_valid_o
  <2>2. firstBuffer!Clock(in1, ready1, forceReset) /\ secondBuffer!Clock(in2, ready2, forceReset)
    BY <1>3 DEF JoinClock
  <2> HIDE DEF ready1, ready2
  <2>3. first!Clock(in1, ready1, forceReset)
    BY <2>2 DEF firstBuffer!Clock, firstBuffer!CycleEmpty, firstBuffer!CycleData,
                firstBuffer!CycleExtra, firstBuffer!Ports, firstBuffer!Enter,
                firstBuffer!in_ready_o, firstBuffer!out_valid_o,
                first!Clock, first!CycleEmpty, first!CycleData, first!CycleExtra,
                first!Ports, first!Enter, first!in_ready_o, first!out_valid_o
  <2>4. second!Clock(in2, ready2, forceReset)
    BY <2>2 DEF secondBuffer!Clock, secondBuffer!CycleEmpty, secondBuffer!CycleData,
                secondBuffer!CycleExtra, secondBuffer!Ports, secondBuffer!Enter,
                secondBuffer!in_ready_o, secondBuffer!out_valid_o,
                second!Clock, second!CycleEmpty, second!CycleData, second!CycleExtra,
                second!Ports, second!Enter, second!in_ready_o, second!out_valid_o
  <2>5. QED BY <2>1, <2>3, <2>4 DEF first!Next, second!Next
<1>4. QED BY <1>1, <1>2, <1>3 DEF JoinNext

LEMMA BuffersRun == JoinSpec => first!Spec /\ second!Spec
<1>1. JoinInit => first!Init /\ second!Init
  BY DEF JoinInit, firstBuffer!Init, secondBuffer!Init, first!Init, second!Init
<1>2. QED BY <1>1, BuffersStep, PTL DEF JoinSpec, first!Spec, second!Spec

LEMMA FirstQueue == first!ImplementsFifo => firstBuffer!ImplementsFifo
<1>1. first!Fifo!FifoInit => firstBuffer!Fifo!FifoInit
  BY DEF first!Fifo!FifoInit, firstBuffer!Fifo!FifoInit, first!Held, firstBuffer!Held
<1>2. [first!Fifo!FifoNext]_(first!Fifo!fifoVars)
        => [firstBuffer!Fifo!FifoNext]_(firstBuffer!Fifo!fifoVars)
  BY DEF first!Fifo!FifoNext, first!Fifo!Cycle, first!Fifo!Flush, first!Fifo!Remaining,
         first!Fifo!Word, first!Fifo!fifoVars, first!Held,
         firstBuffer!Fifo!FifoNext, firstBuffer!Fifo!Cycle, firstBuffer!Fifo!Flush,
         firstBuffer!Fifo!Remaining, firstBuffer!Fifo!Word, firstBuffer!Fifo!fifoVars,
         firstBuffer!Held
<1>3. QED
  BY <1>1, <1>2, PTL DEF first!ImplementsFifo, firstBuffer!ImplementsFifo,
                         first!Fifo!FifoSpec, firstBuffer!Fifo!FifoSpec

LEMMA SecondQueue == second!ImplementsFifo => secondBuffer!ImplementsFifo
<1>1. second!Fifo!FifoInit => secondBuffer!Fifo!FifoInit
  BY DEF second!Fifo!FifoInit, secondBuffer!Fifo!FifoInit, second!Held, secondBuffer!Held
<1>2. [second!Fifo!FifoNext]_(second!Fifo!fifoVars)
        => [secondBuffer!Fifo!FifoNext]_(secondBuffer!Fifo!fifoVars)
  BY DEF second!Fifo!FifoNext, second!Fifo!Cycle, second!Fifo!Flush, second!Fifo!Remaining,
         second!Fifo!Word, second!Fifo!fifoVars, second!Held,
         secondBuffer!Fifo!FifoNext, secondBuffer!Fifo!Cycle, secondBuffer!Fifo!Flush,
         secondBuffer!Fifo!Remaining, secondBuffer!Fifo!Word, secondBuffer!Fifo!fifoVars,
         secondBuffer!Held
<1>3. QED
  BY <1>1, <1>2, PTL DEF second!ImplementsFifo, secondBuffer!ImplementsFifo,
                         second!Fifo!FifoSpec, secondBuffer!Fifo!FifoSpec

\* Each stream keeps its order however long it waits for the other
\* (JoinTwoHandshakes.v:29-61).
THEOREM BuffersAreFifos == JoinSpec => EachInOrder
<1>1. first!Spec => first!ImplementsFifo BY first!SkidBufferIsFifo
<1>2. second!Spec => second!ImplementsFifo BY second!SkidBufferIsFifo
<1>3. QED BY <1>1, <1>2, BuffersRun, FirstQueue, SecondQueue, PTL DEF EachInOrder

LEMMA FirstStalls ==
  first!StallsOnlyAfterConsumer => firstBuffer!StallsOnlyAfterConsumer
<1>1. [(first!in_ready_o /\ ~first!in_ready_o')
          => (result_first' = NoData /\ first_state = "DATA")]_(first!vars)
      => [(firstBuffer!in_ready_o /\ ~firstBuffer!in_ready_o')
            => (result_first' = NoData /\ first_state = "DATA")]_(firstBuffer!vars)
  BY DEF first!in_ready_o, firstBuffer!in_ready_o, first!vars, firstBuffer!vars
<1>2. QED
  BY <1>1, PTL DEF first!StallsOnlyAfterConsumer, firstBuffer!StallsOnlyAfterConsumer

LEMMA SecondStalls ==
  second!StallsOnlyAfterConsumer => secondBuffer!StallsOnlyAfterConsumer
<1>1. [(second!in_ready_o /\ ~second!in_ready_o')
          => (result_second' = NoData /\ second_state = "DATA")]_(second!vars)
      => [(secondBuffer!in_ready_o /\ ~secondBuffer!in_ready_o')
            => (result_second' = NoData /\ second_state = "DATA")]_(secondBuffer!vars)
  BY DEF second!in_ready_o, secondBuffer!in_ready_o, second!vars, secondBuffer!vars
<1>2. QED
  BY <1>1, PTL DEF second!StallsOnlyAfterConsumer, secondBuffer!StallsOnlyAfterConsumer

\* The join makes neither producer wait without its consumer having waited.
THEOREM JoinStallsLate == JoinSpec => StallsLate
<1>1. first!Spec => first!StallsOnlyAfterConsumer BY first!StallsLate
<1>2. second!Spec => second!StallsOnlyAfterConsumer BY second!StallsLate
<1>3. QED BY <1>1, <1>2, BuffersRun, FirstStalls, SecondStalls, PTL DEF StallsLate

\* A cycle hands over a word of each stream or of neither: both buffers look at
\* the same three signals, and a buffer that shows a word holds one.
LEMMA PairLeaves ==
  ASSUME first!IInv, second!IInv, [JoinNext]_joinVars
  PROVE  [ /\ (result_first' = NoData) <=> (result_second' = NoData)
           /\ result_first' # NoData => result_valid_o ]_joinVars
<1> SUFFICES ASSUME JoinNext
             PROVE  /\ (result_first' = NoData) <=> (result_second' = NoData)
                    /\ result_first' # NoData => result_valid_o
  OBVIOUS
<1>1. CASE JoinReset
  BY <1>1 DEF JoinReset, firstBuffer!Reset, secondBuffer!Reset
<1>2. ASSUME NEW in1 \in FirstData \cup {NoData}, NEW in2 \in SecondData \cup {NoData},
             NEW result_ready \in BOOLEAN, NEW forceReset \in BOOLEAN,
             JoinClock(in1, in2, result_ready, forceReset)
      PROVE  /\ (result_first' = NoData) <=> (result_second' = NoData)
             /\ result_first' # NoData => result_valid_o
  <2>1. /\ result_first' = IF firstBuffer!out_valid_o /\ result_ready /\ secondBuffer!out_valid_o
                             THEN first_data ELSE NoData
        /\ result_second' = IF secondBuffer!out_valid_o /\ result_ready /\ firstBuffer!out_valid_o
                              THEN second_data ELSE NoData
    BY <1>2 DEF JoinClock, firstBuffer!Clock, firstBuffer!CycleEmpty, firstBuffer!CycleData,
                firstBuffer!CycleExtra, firstBuffer!Ports, secondBuffer!Clock,
                secondBuffer!CycleEmpty, secondBuffer!CycleData, secondBuffer!CycleExtra,
                secondBuffer!Ports
  <2>2. /\ firstBuffer!out_valid_o => first_data \in FirstData
        /\ secondBuffer!out_valid_o => second_data \in SecondData
    BY DEF first!IInv, first!Stored, second!IInv, second!Stored,
           firstBuffer!out_valid_o, secondBuffer!out_valid_o
  <2>3. QED BY <2>1, <2>2, JoinAssumption DEF result_valid_o
<1>3. QED BY <1>1, <1>2 DEF JoinNext

THEOREM WordsLeaveTogether == JoinSpec => LeaveTogether
<1>1. first!Spec => []first!IInv BY first!AlwaysWellFormed
<1>2. second!Spec => []second!IInv BY second!AlwaysWellFormed
<1>3. first!IInv /\ second!IInv /\ [JoinNext]_joinVars
        => [ /\ (result_first' = NoData) <=> (result_second' = NoData)
             /\ result_first' # NoData => result_valid_o ]_joinVars
  BY PairLeaves
<1>4. QED BY <1>1, <1>2, <1>3, BuffersRun, PTL DEF JoinSpec, LeaveTogether

-----------------------------------------------------------------------------
(* Addresses, and functions defined from the last value down.                *)

\* The size of the address space.
LEMMA WordsAre == 2^ADDR_W \in Nat \ {0}
<1>1. ADDR_W \in {1, 2, 3, 4, 5, 6, 7, 8, 9, 10, 11, 12, 13, 14, 15, 16, 17, 18, 19, 20, 21,
                  22, 23, 24, 25, 26, 27, 28, 29, 30, 31, 32}
  BY AddressAssumption
<1>2. /\ 2^1 = 2 /\ 2^2 = 4 /\ 2^3 = 8 /\ 2^4 = 16
      /\ 2^5 = 32 /\ 2^6 = 64 /\ 2^7 = 128 /\ 2^8 = 256
      /\ 2^9 = 512 /\ 2^10 = 1024 /\ 2^11 = 2048 /\ 2^12 = 4096
      /\ 2^13 = 8192 /\ 2^14 = 16384 /\ 2^15 = 32768 /\ 2^16 = 65536
      /\ 2^17 = 131072 /\ 2^18 = 262144 /\ 2^19 = 524288 /\ 2^20 = 1048576
      /\ 2^21 = 2097152 /\ 2^22 = 4194304 /\ 2^23 = 8388608 /\ 2^24 = 16777216
      /\ 2^25 = 33554432 /\ 2^26 = 67108864 /\ 2^27 = 134217728 /\ 2^28 = 268435456
      /\ 2^29 = 536870912 /\ 2^30 = 1073741824 /\ 2^31 = 2147483648 /\ 2^32 = 4294967296
  OBVIOUS
<1>3. 2^ADDR_W \in {2^1, 2^2, 2^3, 2^4, 2^5, 2^6, 2^7, 2^8,
                   2^9, 2^10, 2^11, 2^12, 2^13, 2^14, 2^15, 2^16,
                   2^17, 2^18, 2^19, 2^20, 2^21, 2^22, 2^23, 2^24,
                   2^25, 2^26, 2^27, 2^28, 2^29, 2^30, 2^31, 2^32}
  BY <1>1, Zenon
<1>4. QED BY <1>2, <1>3

LEMMA WrapAdds ==
  ASSUME NEW x \in Int, NEW y \in Int
  PROVE  Wrap(Wrap(x) + y) = Wrap(x + y)
<1>1. PICK h \in Nat \ {0} : h = 2^ADDR_W
  BY WordsAre
<1>2. PICK q \in Int, r \in 0 .. h - 1 : x = h * q + r /\ r = x % h
  <2>1. x = h * (x \div h) + (x % h) /\ x \div h \in Int /\ x % h \in 0 .. h - 1
    OBVIOUS
  <2>2. QED BY <2>1
<1>3. PICK p \in Int, s \in 0 .. h - 1 : r + y = h * p + s /\ s = (r + y) % h
  <2>1. r + y = h * ((r + y) \div h) + ((r + y) % h) /\ (r + y) \div h \in Int
        /\ (r + y) % h \in 0 .. h - 1
    OBVIOUS
  <2>2. QED BY <2>1
<1>4. x + y = h * (q + p) + s
  BY <1>2, <1>3
<1>5. (h * (q + p) + s) % h = s
  OBVIOUS
<1>6. QED BY <1>1, <1>2, <1>3, <1>4, <1>5 DEF Wrap

\* What holds of the last and of each before one it holds of, holds of all.
LEMMA FromTheLast ==
  ASSUME NEW L \in Nat, NEW G, L + 1 \in G, \A k \in 1 .. L : k + 1 \in G => k \in G
  PROVE  \A k \in 1 .. L + 1 : k \in G
<1>1. SUFFICES ASSUME NEW m \in 1 .. L + 1, m \notin G PROVE FALSE
  OBVIOUS
<1>2. PICK Bad : Bad = {d \in 0 .. L : L + 1 - d \notin G}
  OBVIOUS
<1>3. Bad \subseteq Nat /\ L + 1 - m \in Bad
  BY <1>1, <1>2
<1>4. PICK d \in Bad : \A c \in Bad : ~(<<c, d>> \in OpToRel(<, Nat))
  BY <1>3, WFMin, NatLessThanWellFounded
<1>5. d \in 0 .. L /\ L + 1 - d \notin G
  BY <1>2
<1>6. d # 0
  BY <1>5
<1>7. L + 1 - d \in 1 .. L /\ L + 1 - d + 1 = L + 1 - (d - 1) /\ d - 1 \in 0 .. L
  BY <1>5, <1>6
<1>8. d - 1 \in Bad
  BY <1>2, <1>5, <1>7
<1>9. <<d - 1, d>> \in OpToRel(<, Nat)
  BY <1>5, <1>7 DEF OpToRel
<1>10. QED BY <1>4, <1>8, <1>9

\* A function on 1 .. L + 1 may be defined from its last value down.
Definable(L, S, e, step) ==
  \E f \in [1 .. L + 1 -> S] :
    f[L + 1] = e /\ \A k \in 1 .. L : f[k] = step[k][f[k + 1]]

LEMMA Downwards ==
  ASSUME NEW L \in Nat, NEW S, NEW e \in S, NEW step \in [1 .. L -> [S -> S]]
  PROVE  Definable(L, S, e, step)
<1> DEFINE Upto(m) == \E f \in [m .. L + 1 -> S] :
                        f[L + 1] = e /\ \A k \in m .. L : f[k] = step[k][f[k + 1]]
<1>1. Upto(L + 1)
  <2>1. PICK f : f = [k \in L + 1 .. L + 1 |-> e]
    OBVIOUS
  <2>2. f \in [L + 1 .. L + 1 -> S] /\ f[L + 1] = e /\ (L + 1 .. L) = {}
    BY <2>1
  <2>3. QED BY <2>2
<1>2. ASSUME NEW m \in 1 .. L, Upto(m + 1) PROVE Upto(m)
  <2>1. PICK f \in [m + 1 .. L + 1 -> S] :
          f[L + 1] = e /\ \A k \in m + 1 .. L : f[k] = step[k][f[k + 1]]
    BY <1>2
  <2>2. PICK g : g = [k \in m .. L + 1 |-> IF k = m THEN step[m][f[m + 1]] ELSE f[k]]
    OBVIOUS
  <2>3. f[m + 1] \in S /\ step[m][f[m + 1]] \in S
    BY <2>1
  <2>4. g \in [m .. L + 1 -> S]
    BY <2>1, <2>2, <2>3
  <2>5. g[L + 1] = e
    BY <2>1, <2>2
  <2>6. ASSUME NEW k \in m .. L PROVE g[k] = step[k][g[k + 1]]
    <3>1. g[k + 1] = f[k + 1]
      BY <2>2
    <3>2. CASE k = m
      BY <3>1, <3>2, <2>2
    <3>3. CASE k # m
      BY <3>1, <3>3, <2>1, <2>2
    <3>4. QED BY <3>2, <3>3
  <2>7. QED BY <2>4, <2>5, <2>6
<1>3. Upto(1)
  <2> HIDE DEF Upto
  <2>1. PICK G : G = {m \in 1 .. L + 1 : Upto(m)}
    OBVIOUS
  <2>2. L + 1 \in G /\ \A k \in 1 .. L : k + 1 \in G => k \in G
    BY <1>1, <1>2, <2>1
  <2>3. \A k \in 1 .. L + 1 : k \in G
    BY <2>2, FromTheLast
  <2>4. QED BY <2>1, <2>3
<1>4. QED BY <1>3 DEF Definable

-----------------------------------------------------------------------------
(* A nest.                                                                  *)

LEMMA NestIs ==
  ASSUME NEW a, Fits(a)
  PROVE  /\ Nest(a) \in Seq(Int \X Nat)
         /\ \A k \in 1 .. Len(Nest(a)) :
              /\ TermOf(Nest(a)[k]) \in Int /\ SizeOf(Nest(a)[k]) \in Nat
              /\ k > 1 => SizeOf(Nest(a)[k]) > 0
<1>1. Nest(a) \in Seq(Int \X Nat)
  <2>1. PICK front, loops : front = <<<<0, a.dutyDiv>>>> /\ loops = a.loops
    OBVIOUS
  <2>2. <<0, a.dutyDiv>> \in Int \X Nat /\ loops \in Seq(Int \X Nat)
    BY <2>1 DEF Fits
  <2>3. front \in Seq(Int \X Nat)
    BY <2>1, <2>2
  <2>4. front \o loops \in Seq(Int \X Nat)
    BY <2>2, <2>3, Zenon, ConcatProperties
  <2>5. QED BY <2>1, <2>2, <2>4 DEF Nest
<1>2. ASSUME NEW k \in 1 .. Len(Nest(a)), k > 1 PROVE SizeOf(Nest(a)[k]) > 0
  <2>1. k \in 2 .. Len(Nest(a))
    BY <1>1, <1>2
  <2>2. QED BY <2>1 DEF Fits
<1>3. ASSUME NEW k \in 1 .. Len(Nest(a))
      PROVE  TermOf(Nest(a)[k]) \in Int /\ SizeOf(Nest(a)[k]) \in Nat
  <2>1. Nest(a)[k] \in Int \X Nat
    BY <1>1
  <2>2. QED BY <2>1 DEF TermOf, SizeOf
<1>4. QED BY <1>1, <1>2, <1>3

LEMMA PointsAre ==
  ASSUME NEW n \in Seq(Int \X Nat), NEW L \in Nat, L = Len(n)
  PROVE  /\ PointsFrom(n) \in [1 .. L + 1 -> Nat]
         /\ PointsFrom(n)[L + 1] = 1
         /\ \A k \in 1 .. L : PointsFrom(n)[k] = SizeOf(n[k]) * PointsFrom(n)[k + 1]
<1>1. \A k \in 1 .. L : SizeOf(n[k]) \in Nat
  BY DEF SizeOf
<1>2. PICK step : step = [k \in 1 .. L |-> [p \in Nat |-> SizeOf(n[k]) * p]]
  OBVIOUS
<1>3. step \in [1 .. L -> [Nat -> Nat]]
  <2>1. ASSUME NEW k \in 1 .. L PROVE [p \in Nat |-> SizeOf(n[k]) * p] \in [Nat -> Nat]
    <3>1. PICK s \in Nat : s = SizeOf(n[k])
      BY <1>1
    <3>2. \A p \in Nat : s * p \in Nat
      OBVIOUS
    <3>3. QED BY <3>1, <3>2
  <2>2. QED BY <1>2, <2>1, Zenon
<1>4. PICK f \in [1 .. L + 1 -> Nat] :
        f[L + 1] = 1 /\ \A k \in 1 .. L : f[k] = step[k][f[k + 1]]
  <2>1. 1 \in Nat
    OBVIOUS
  <2>2. Definable(L, Nat, 1, step)
    BY <1>3, <2>1, Downwards, Zenon
  <2>3. QED BY <2>2 DEF Definable
<1>5. \A k \in 1 .. L : f[k] = SizeOf(n[k]) * f[k + 1]
  <2>1. ASSUME NEW k \in 1 .. L PROVE f[k] = SizeOf(n[k]) * f[k + 1]
    <3>1. k + 1 \in 1 .. L + 1
      OBVIOUS
    <3>2. f[k + 1] \in Nat
      BY <3>1
    <3>3. f[k] = step[k][f[k + 1]]
      BY <1>4
    <3>4. QED BY <1>2, <3>2, <3>3, Zenon
  <2>2. QED BY <2>1
<1>6. f = [k \in 1 .. Len(n) + 1 |-> IF k > Len(n) THEN 1 ELSE SizeOf(n[k]) * f[k + 1]]
  <2>1. f = [k \in 1 .. L + 1 |-> f[k]]
    OBVIOUS
  <2>2. \A k \in 1 .. L + 1 : f[k] = IF k > L THEN 1 ELSE SizeOf(n[k]) * f[k + 1]
    BY <1>4, <1>5
  <2>3. QED BY <2>1, <2>2, Zenon
<1>7. PointsFrom(n) =
        [k \in 1 .. Len(n) + 1 |->
           IF k > Len(n) THEN 1 ELSE SizeOf(n[k]) * PointsFrom(n)[k + 1]]
  BY <1>6, Zenon DEF PointsFrom
<1>8. PICK p : p = PointsFrom(n)
  OBVIOUS
<1>9. p[L + 1] = 1 /\ \A k \in 1 .. L : p[k] = SizeOf(n[k]) * p[k + 1]
  <2>1. p[L + 1] = 1
    BY <1>7, <1>8
  <2>2. ASSUME NEW k \in 1 .. L PROVE p[k] = SizeOf(n[k]) * p[k + 1]
    <3>1. k \in 1 .. Len(n) + 1 /\ ~(k > Len(n))
      OBVIOUS
    <3>2. QED BY <1>7, <1>8, <3>1, Zenon
  <2>3. QED BY <2>1, <2>2
<1>10. \A k \in 1 .. L + 1 : p[k] \in Nat
  <2>1. PICK G : G = {k \in 1 .. L + 1 : p[k] \in Nat}
    OBVIOUS
  <2>2. L + 1 \in G
    BY <1>9, <2>1
  <2>3. ASSUME NEW k \in 1 .. L, k + 1 \in G PROVE k \in G
    <3>1. PICK x \in Nat : x = p[k + 1]
      BY <2>1, <2>3
    <3>2. PICK y \in Nat : y = SizeOf(n[k])
      BY <1>1
    <3>3. x * y \in Nat /\ y * x \in Nat
      OBVIOUS
    <3>4. p[k] \in Nat
      BY <1>9, <3>1, <3>2, <3>3
    <3>5. QED BY <2>1, <3>4
  <2>4. \A k \in 1 .. L + 1 : k \in G
    BY <2>2, <2>3, FromTheLast
  <2>5. QED BY <2>1, <2>4
<1>11. p = [k \in 1 .. L + 1 |-> p[k]]
  BY <1>7, <1>8
<1>12. p \in [1 .. L + 1 -> Nat]
  BY <1>10, <1>11
<1>13. QED BY <1>8, <1>9, <1>12

\* Point c of loop k, in the m-th turn of the loops around it.
LEMMA Splits ==
  ASSUME NEW s \in Nat, NEW c \in Nat, c < s, NEW m \in Nat
  PROVE  c + s * m \in Nat /\ (c + s * m) % s = c /\ (c + s * m) \div s = m
<1>1. s * m \in Nat
  OBVIOUS
<1>2. QED BY <1>1

LEMMA Divides ==
  ASSUME NEW m \in Nat, NEW s \in Nat \ {0}
  PROVE  m % s \in Nat /\ m \div s \in Nat
<1>1. PICK q \in Int, r \in 0 .. s - 1 : q = m \div s /\ r = m % s /\ m = s * q + r
  OBVIOUS
<1>2. q >= 0
  <2>1. SUFFICES ASSUME q <= -1 PROVE FALSE
    BY <1>1
  <2>2. s * q <= s * (-1)
    BY <2>1
  <2>3. QED BY <1>1, <2>2
<1>3. QED BY <1>1, <1>2

\* The sums of a nest of L loops, point by point.
SumUp(g, n, L) ==
  /\ \A m \in Nat : g[L + 1][m] = 0
  /\ \A k \in 1 .. L, c, m \in Nat :
       c < SizeOf(n[k]) => g[k][c + SizeOf(n[k]) * m] = TermOf(n[k]) * c + g[k + 1][m]

LEMMA SumsAre ==
  ASSUME NEW n \in Seq(Int \X Nat), NEW L \in Nat, L = Len(n),
         \A k \in 1 .. L : SizeOf(n[k]) > 0
  PROVE  SumUp(SumsFrom(n), n, L)
<1>1. \A k \in 1 .. L : SizeOf(n[k]) \in Nat \ {0} /\ TermOf(n[k]) \in Int
  BY DEF SizeOf, TermOf
<1>2. PICK step :
        step = [k \in 1 .. L |-> [g \in [Nat -> Int] |->
                 [m \in Nat |-> TermOf(n[k]) * (m % SizeOf(n[k])) + g[m \div SizeOf(n[k])]]]]
  OBVIOUS
<1>3. step \in [1 .. L -> [[Nat -> Int] -> [Nat -> Int]]]
  <2>1. ASSUME NEW k \in 1 .. L, NEW g \in [Nat -> Int]
        PROVE  [m \in Nat |-> TermOf(n[k]) * (m % SizeOf(n[k])) + g[m \div SizeOf(n[k])]]
                 \in [Nat -> Int]
    <3>1. PICK s \in Nat \ {0}, t \in Int : s = SizeOf(n[k]) /\ t = TermOf(n[k])
      BY <1>1
    <3>2. ASSUME NEW m \in Nat PROVE t * (m % s) + g[m \div s] \in Int
      <4>1. PICK r \in Nat, q \in Nat : r = m % s /\ q = m \div s
        BY Divides
      <4>2. t * r \in Int /\ g[q] \in Int
        OBVIOUS
      <4>3. t * r + g[q] \in Int
        BY <4>2
      <4>4. QED BY <4>1, <4>3, Zenon
    <3>3. QED BY <3>1, <3>2, Zenon
  <2>2. QED BY <1>2, <2>1, Zenon
<1>4. PICK zero : zero \in [Nat -> Int] /\ zero = [m \in Nat |-> 0]
  <2>1. [m \in Nat |-> 0] \in [Nat -> Int]
    OBVIOUS
  <2>2. QED BY <2>1
<1>5. PICK f \in [1 .. L + 1 -> [Nat -> Int]] :
        f[L + 1] = zero /\ \A k \in 1 .. L : f[k] = step[k][f[k + 1]]
  <2>1. Definable(L, [Nat -> Int], zero, step)
    BY <1>3, <1>4, Downwards, Zenon
  <2>2. QED BY <2>1 DEF Definable
<1>6. \A k \in 1 .. L :
        f[k] = [m \in Nat |-> TermOf(n[k]) * (m % SizeOf(n[k])) + f[k + 1][m \div SizeOf(n[k])]]
  <2>1. ASSUME NEW k \in 1 .. L
        PROVE  f[k] = [m \in Nat |-> TermOf(n[k]) * (m % SizeOf(n[k]))
                                       + f[k + 1][m \div SizeOf(n[k])]]
    <3>1. k + 1 \in 1 .. L + 1
      OBVIOUS
    <3>2. f[k + 1] \in [Nat -> Int]
      BY <3>1, Zenon
    <3>3. f[k] = step[k][f[k + 1]]
      BY <1>5
    <3>4. QED BY <1>2, <3>2, <3>3, Zenon
  <2>2. QED BY <2>1
<1>7. \A k \in 1 .. L + 1 :
        f[k] = [m \in Nat |-> IF k > Len(n) THEN 0
                              ELSE TermOf(n[k]) * (m % SizeOf(n[k]))
                                     + f[k + 1][m \div SizeOf(n[k])]]
  <2>1. ASSUME NEW k \in 1 .. L + 1
        PROVE  f[k] = [m \in Nat |-> IF k > Len(n) THEN 0
                                     ELSE TermOf(n[k]) * (m % SizeOf(n[k]))
                                            + f[k + 1][m \div SizeOf(n[k])]]
    <3>1. CASE k > Len(n)
      <4>1. k = L + 1
        BY <3>1
      <4>2. f[k] = [m \in Nat |-> 0]
        BY <1>4, <1>5, <4>1
      <4>3. QED BY <3>1, <4>2, Zenon
    <3>2. CASE ~(k > Len(n))
      <4>1. k \in 1 .. L
        BY <3>2
      <4>2. QED BY <1>6, <3>2, <4>1, Zenon
    <3>3. QED BY <3>1, <3>2
  <2>2. QED BY <2>1, Zenon
<1>8. f = [k \in 1 .. Len(n) + 1 |-> [m \in Nat |->
             IF k > Len(n) THEN 0
             ELSE TermOf(n[k]) * (m % SizeOf(n[k])) + f[k + 1][m \div SizeOf(n[k])]]]
  <2>1. f = [k \in 1 .. L + 1 |-> f[k]]
    OBVIOUS
  <2>2. QED BY <1>7, <2>1, Zenon
<1>9. PICK g : g = SumsFrom(n)
  OBVIOUS
<1>10. g = [k \in 1 .. Len(n) + 1 |-> [m \in Nat |->
              IF k > Len(n) THEN 0
              ELSE TermOf(n[k]) * (m % SizeOf(n[k])) + g[k + 1][m \div SizeOf(n[k])]]]
  BY <1>8, <1>9, Zenon DEF SumsFrom
<1>11. ASSUME NEW m \in Nat PROVE g[L + 1][m] = 0
  <2>1. L + 1 \in 1 .. Len(n) + 1 /\ L + 1 > Len(n)
    OBVIOUS
  <2>2. g[L + 1] = [x \in Nat |->
                      IF L + 1 > Len(n) THEN 0
                      ELSE TermOf(n[L + 1]) * (x % SizeOf(n[L + 1]))
                             + g[L + 1 + 1][x \div SizeOf(n[L + 1])]]
    BY <1>10, <2>1, Zenon
  <2>3. QED BY <2>1, <2>2, Zenon
<1>12. ASSUME NEW k \in 1 .. L, NEW c \in Nat, NEW m \in Nat, c < SizeOf(n[k])
       PROVE  g[k][c + SizeOf(n[k]) * m] = TermOf(n[k]) * c + g[k + 1][m]
  <2>1. k \in 1 .. Len(n) + 1 /\ ~(k > Len(n))
    OBVIOUS
  <2>2. PICK s \in Nat : s = SizeOf(n[k])
    BY <1>1
  <2>3. c + s * m \in Nat /\ (c + s * m) % s = c /\ (c + s * m) \div s = m
    BY <1>12, <2>2, Splits
  <2>4. \A x \in Nat : g[k][x] = TermOf(n[k]) * (x % s) + g[k + 1][x \div s]
    <3>1. g[k] = [x \in Nat |->
                   IF k > Len(n) THEN 0
                   ELSE TermOf(n[k]) * (x % SizeOf(n[k])) + g[k + 1][x \div SizeOf(n[k])]]
      BY <1>10, <2>1, Zenon
    <3>2. QED BY <2>1, <2>2, <3>1, Zenon
  <2>5. g[k][c + s * m] = TermOf(n[k]) * c + g[k + 1][m]
    BY <2>3, <2>4, Zenon
  <2>6. QED BY <2>2, <2>5, Zenon
<1>13. SumUp(g, n, L)
  BY <1>11, <1>12, Zenon DEF SumUp
<1>14. QED BY <1>9, <1>13, Zenon

\* The loops of a nest, and one turn of nothing for a counter that has no loop.
SizeAt(n, k) == IF k <= Len(n) THEN SizeOf(n[k]) ELSE 1
TermAt(n, k) == IF k <= Len(n) THEN TermOf(n[k]) ELSE 0

\* A nest whose every loop is entered.
Entered(n) ==
  /\ n \in Seq(Int \X Nat) /\ Len(n) \in 1 .. 7
  /\ \A k \in 1 .. Len(n) : SizeOf(n[k]) > 0

LEMMA SizesAre ==
  ASSUME NEW n, Entered(n), NEW k \in Nat, k > 0
  PROVE  SizeAt(n, k) \in Nat \ {0} /\ TermAt(n, k) \in Int
<1>1. CASE k <= Len(n)
  <2>1. k \in 1 .. Len(n)
    BY <1>1 DEF Entered
  <2>2. n[k] \in Int \X Nat /\ SizeOf(n[k]) > 0
    BY <2>1 DEF Entered
  <2>3. SizeOf(n[k]) \in Nat \ {0} /\ TermOf(n[k]) \in Int
    BY <2>2 DEF SizeOf, TermOf
  <2>4. QED BY <1>1, <2>3 DEF SizeAt, TermAt
<1>2. CASE ~(k <= Len(n))
  BY <1>2 DEF SizeAt, TermAt
<1>3. QED BY <1>1, <1>2

\* The point at which counters stand at c, and the sum of the terms there, both
\* counted from each loop outwards.
Chain(n, c, I, A) ==
  /\ I \in [1 .. 9 -> Nat] /\ A \in [1 .. 9 -> Int]
  /\ I[9] = 0 /\ A[9] = 0
  /\ \A k \in Counters : /\ I[k] = c[k] + SizeAt(n, k) * I[k + 1]
                         /\ A[k] = TermAt(n, k) * c[k] + A[k + 1]

Within(n, c) == \A k \in Counters : c[k] \in Nat /\ c[k] < SizeAt(n, k)

\* They are the point and the sum of the reference.
Agree(n, I, A) == \A k \in 1 .. Len(n) + 1 : SumsFrom(n)[k][I[k]] = A[k]

LEMMA ChainSums ==
  ASSUME NEW n, Entered(n), NEW c, NEW I, NEW A, Chain(n, c, I, A), Within(n, c)
  PROVE  Agree(n, I, A)
<1>1. PICK L \in 1 .. 7 : L = Len(n)
  BY DEF Entered
<1>2. /\ n \in Seq(Int \X Nat) /\ L \in Nat /\ L = Len(n)
      /\ \A k \in 1 .. L : SizeOf(n[k]) > 0
  BY <1>1 DEF Entered
<1>3. PICK g : g = SumsFrom(n)
  OBVIOUS
<1>4. /\ \A m \in Nat : g[L + 1][m] = 0
      /\ \A k \in 1 .. L, d, m \in Nat :
           d < SizeOf(n[k]) =>
             g[k][d + SizeOf(n[k]) * m] = TermOf(n[k]) * d + g[k + 1][m]
  <2>1. SumUp(SumsFrom(n), n, L)
    BY <1>2, SumsAre, Zenon
  <2>2. QED BY <1>3, <2>1, Zenon DEF SumUp
<1>5. \A k \in 1 .. 9 : I[k] \in Nat
  BY DEF Chain
<1>6. \A k \in 1 .. 9 : k > L => A[k] = 0
  <2>1. PICK G : G = {m \in 1 .. 9 : m > L => A[m] = 0}
    OBVIOUS
  <2>2. 8 + 1 \in G
    BY <2>1 DEF Chain
  <2>3. ASSUME NEW k \in 1 .. 8, k + 1 \in G PROVE k \in G
    <3>1. CASE k > L
      <4>1. A[k + 1] = 0
        BY <2>1, <2>3, <3>1
      <4>2. TermAt(n, k) = 0 /\ SizeAt(n, k) = 1
        BY <1>1, <3>1 DEF TermAt, SizeAt
      <4>3. c[k] \in Nat /\ c[k] < 1
        BY <4>2 DEF Within, Counters
      <4>4. A[k] = TermAt(n, k) * c[k] + A[k + 1]
        BY DEF Chain, Counters
      <4>5. A[k] = 0
        BY <4>1, <4>2, <4>3, <4>4
      <4>6. QED BY <2>1, <4>5
    <3>2. CASE ~(k > L)
      BY <2>1, <3>2
    <3>3. QED BY <3>1, <3>2
  <2>4. \A k \in 1 .. 8 + 1 : k \in G
    BY <2>2, <2>3, FromTheLast
  <2>5. QED BY <2>1, <2>4
<1>7. A[L + 1] = 0 /\ g[L + 1][I[L + 1]] = 0
  <2>1. L + 1 \in 1 .. 9 /\ L + 1 > L
    OBVIOUS
  <2>2. A[L + 1] = 0 /\ I[L + 1] \in Nat
    BY <1>5, <1>6, <2>1
  <2>3. QED BY <1>4, <2>2, Zenon
<1>8. ASSUME NEW k \in 1 .. L, g[k + 1][I[k + 1]] = A[k + 1] PROVE g[k][I[k]] = A[k]
  <2>1. SizeAt(n, k) = SizeOf(n[k]) /\ TermAt(n, k) = TermOf(n[k])
    BY <1>1 DEF SizeAt, TermAt
  <2>2. I[k] = c[k] + SizeOf(n[k]) * I[k + 1] /\ A[k] = TermOf(n[k]) * c[k] + A[k + 1]
    BY <2>1 DEF Chain, Counters
  <2>3. c[k] \in Nat /\ c[k] < SizeOf(n[k])
    BY <2>1 DEF Within, Counters
  <2>4. I[k + 1] \in Nat
    BY <1>5
  <2>5. g[k][c[k] + SizeOf(n[k]) * I[k + 1]] = TermOf(n[k]) * c[k] + g[k + 1][I[k + 1]]
    BY <1>4, <2>3, <2>4, Zenon
  <2>6. QED BY <1>8, <2>2, <2>5, Zenon
<1>9. PICK G : G = {k \in 1 .. L + 1 : g[k][I[k]] = A[k]}
  OBVIOUS
<1>10. L + 1 \in G
  BY <1>7, <1>9
<1>11. \A k \in 1 .. L : k + 1 \in G => k \in G
  <2>1. ASSUME NEW k \in 1 .. L, k + 1 \in G PROVE k \in G
    <3>1. g[k + 1][I[k + 1]] = A[k + 1] /\ k \in 1 .. L + 1
      BY <1>9, <2>1
    <3>2. g[k][I[k]] = A[k]
      BY <1>8, <3>1
    <3>3. QED BY <1>9, <3>1, <3>2, Zenon
  <2>2. QED BY <2>1
<1>12. \A k \in 1 .. L + 1 : k \in G
  BY <1>10, <1>11, FromTheLast
<1>13. QED BY <1>1, <1>3, <1>9, <1>12 DEF Agree

\* No counter stands at more points than there are, and those at their ends at the last.
LEMMA ChainPoints ==
  ASSUME NEW n, Entered(n), NEW c, NEW I, NEW A, Chain(n, c, I, A), Within(n, c)
  PROVE  /\ Points(n) \in Nat /\ I[1] < Points(n)
         /\ (\A k \in Counters : c[k] + 1 = SizeAt(n, k)) => I[1] + 1 = Points(n)
<1>1. PICK L \in 1 .. 7 : L = Len(n)
  BY DEF Entered
<1>2. /\ PointsFrom(n) \in [1 .. L + 1 -> Nat]
      /\ PointsFrom(n)[L + 1] = 1
      /\ \A k \in 1 .. L : PointsFrom(n)[k] = SizeOf(n[k]) * PointsFrom(n)[k + 1]
  <2>1. n \in Seq(Int \X Nat) /\ L \in Nat /\ L = Len(n)
    BY <1>1 DEF Entered
  <2>2. QED BY <2>1, PointsAre, Zenon
<1>3. PICK p : p = PointsFrom(n)
  OBVIOUS
<1>4. PICK P : P = [k \in 1 .. 9 |-> IF k <= L THEN p[k] ELSE 1]
  OBVIOUS
<1>5. P[9] = 1 /\ \A k \in 1 .. 9 : P[k] \in Nat
  BY <1>2, <1>3, <1>4
<1>6. ASSUME NEW k \in 1 .. 8 PROVE P[k] = SizeAt(n, k) * P[k + 1]
  <2>1. CASE k <= L
    <3>1. p[k] = SizeOf(n[k]) * p[k + 1]
      BY <1>2, <1>3, <2>1
    <3>2. P[k] = p[k] /\ P[k + 1] = p[k + 1]
      BY <1>2, <1>3, <1>4, <2>1
    <3>3. SizeAt(n, k) = SizeOf(n[k])
      BY <1>1, <2>1 DEF SizeAt
    <3>4. QED BY <3>1, <3>2, <3>3
  <2>2. CASE ~(k <= L)
    <3>1. SizeAt(n, k) = 1 /\ P[k] = 1 /\ P[k + 1] = 1
      BY <1>1, <1>4, <2>2 DEF SizeAt
    <3>2. QED BY <3>1
  <2>3. QED BY <2>1, <2>2
<1>7. ASSUME NEW k \in 1 .. 8
      PROVE  /\ I[k + 1] < P[k + 1] => I[k] < P[k]
             /\ I[k + 1] + 1 = P[k + 1] /\ c[k] + 1 = SizeAt(n, k) => I[k] + 1 = P[k]
  <2>1. PICK s \in Nat, d \in Nat : s = SizeAt(n, k) /\ d = c[k] /\ d < s
    BY SizesAre DEF Within, Counters
  <2>2. PICK i \in Nat, q \in Nat : i = I[k + 1] /\ q = P[k + 1]
    BY <1>5 DEF Chain
  <2>3. I[k] = d + s * i /\ P[k] = s * q
    BY <1>6, <2>1, <2>2 DEF Chain, Counters
  <2>4. i < q => d + s * i < s * q
    <3>1. SUFFICES ASSUME i + 1 <= q PROVE d + s * i < s * q
      OBVIOUS
    <3>2. s * (i + 1) <= s * q
      BY <3>1
    <3>3. s * (i + 1) = s * i + s
      OBVIOUS
    <3>4. QED BY <2>1, <3>2, <3>3
  <2>5. i + 1 = q /\ d + 1 = s => d + s * i + 1 = s * q
    <3>1. SUFFICES ASSUME i + 1 = q, d + 1 = s PROVE d + s * i + 1 = s * q
      OBVIOUS
    <3>2. s * (i + 1) = s * i + s
      OBVIOUS
    <3>3. QED BY <3>1, <3>2
  <2>6. QED BY <2>1, <2>2, <2>3, <2>4, <2>5
<1>8. I[1] < P[1]
  <2>1. PICK G : G = {k \in 1 .. 9 : I[k] < P[k]}
    OBVIOUS
  <2>2. 8 + 1 \in G
    BY <1>5, <2>1 DEF Chain
  <2>3. \A k \in 1 .. 8 : k + 1 \in G => k \in G
    BY <1>7, <2>1
  <2>4. \A k \in 1 .. 8 + 1 : k \in G
    BY <2>2, <2>3, FromTheLast
  <2>5. QED BY <2>1, <2>4
<1>9. ASSUME \A k \in Counters : c[k] + 1 = SizeAt(n, k) PROVE I[1] + 1 = P[1]
  <2>1. PICK G : G = {k \in 1 .. 9 : I[k] + 1 = P[k]}
    OBVIOUS
  <2>2. 8 + 1 \in G
    BY <1>5, <2>1 DEF Chain
  <2>3. \A k \in 1 .. 8 : k + 1 \in G => k \in G
    BY <1>7, <1>9, <2>1 DEF Counters
  <2>4. \A k \in 1 .. 8 + 1 : k \in G
    BY <2>2, <2>3, FromTheLast
  <2>5. QED BY <2>1, <2>4
<1>10. P[1] = Points(n) /\ P[1] \in Nat
  BY <1>1, <1>2, <1>3, <1>4 DEF Points
<1>11. QED BY <1>8, <1>9, <1>10

\* An access to nothing has no points.
LEMMA EmptyNest ==
  ASSUME NEW n \in Seq(Int \X Nat), Len(n) \in 1 .. 7, SizeOf(n[1]) = 0
  PROVE  Points(n) = 0
<1>1. PICK L \in Nat : L = Len(n)
  OBVIOUS
<1>2. /\ PointsFrom(n) \in [1 .. L + 1 -> Nat]
      /\ \A k \in 1 .. L : PointsFrom(n)[k] = SizeOf(n[k]) * PointsFrom(n)[k + 1]
  BY <1>1, PointsAre, Zenon
<1>3. PICK q \in Nat : q = PointsFrom(n)[1 + 1]
  BY <1>1, <1>2
<1>4. PointsFrom(n)[1] = SizeOf(n[1]) * q
  BY <1>1, <1>2, <1>3
<1>5. QED BY <1>4 DEF Points

\* The first point of every loop is where the sum is nothing.
LEMMA FirstPoint ==
  ASSUME NEW n, Entered(n)
  PROVE  \A k \in 1 .. Len(n) + 1 : SumsFrom(n)[k][0] = 0
<1>1. PICK c, I, A : c = [k \in Counters |-> 0] /\ I = [k \in 1 .. 9 |-> 0] /\ A = [k \in 1 .. 9 |-> 0]
  OBVIOUS
<1>2. Chain(n, c, I, A)
  <2>1. ASSUME NEW k \in Counters
        PROVE  I[k] = c[k] + SizeAt(n, k) * I[k + 1] /\ A[k] = TermAt(n, k) * c[k] + A[k + 1]
    <3>1. PICK s \in Nat, t \in Int : s = SizeAt(n, k) /\ t = TermAt(n, k)
      BY SizesAre DEF Counters
    <3>2. I[k] = 0 /\ I[k + 1] = 0 /\ A[k] = 0 /\ A[k + 1] = 0 /\ c[k] = 0
      BY <1>1 DEF Counters
    <3>3. QED BY <3>1, <3>2
  <2>2. QED BY <1>1, <2>1 DEF Chain
<1>3. Within(n, c)
  BY <1>1, SizesAre DEF Within, Counters
<1>4. Agree(n, I, A)
  BY <1>2, <1>3, ChainSums, Zenon
<1>5. PICK L \in 1 .. 7 : L = Len(n)
  BY DEF Entered
<1>6. ASSUME NEW k \in 1 .. L + 1 PROVE I[k] = 0 /\ A[k] = 0
  BY <1>1
<1>7. QED BY <1>4, <1>5, <1>6 DEF Agree

-----------------------------------------------------------------------------
(* What the compiler configures.                                            *)

LEMMA ConfigIs ==
  ASSUME NEW n, n = Nest(access), Fits(access), NEW j \in Counters
  PROVE  /\ Times(j) = IF j <= Len(n) THEN SizeOf(n[j]) ELSE 0
         /\ Times(j) \in Nat
         /\ j <= Len(n) =>
              Amount(j) = IF j % 2 = 1 THEN TermAt(n, j)
                          ELSE TermAt(n, j) - TermAt(n, j - 1) * (SizeAt(n, j - 1) - 1)
<1>1. PICK L \in 1 .. 7 : L = Len(n)
  BY DEF Fits
<1>2. config.per = [k \in Levels |-> IF 2 * k - 1 <= Len(n) THEN SizeOf(n[2 * k - 1]) ELSE 0]
  BY DEF config, CompileAccess, HasInner, Inner
<1>3. config.incr = [k \in Levels |-> IF 2 * k - 1 <= Len(n) THEN TermOf(n[2 * k - 1]) ELSE 0]
  BY DEF config, CompileAccess, HasInner, Inner
<1>4. config.iter = [k \in Levels |-> IF 2 * k <= Len(n) THEN SizeOf(n[2 * k]) ELSE 0]
  BY DEF config, CompileAccess, HasOuter, Outer
<1>5. config.shift = [k \in Levels |->
         IF 2 * k <= Len(n)
           THEN TermOf(n[2 * k]) - TermOf(n[2 * k - 1]) * (SizeOf(n[2 * k - 1]) - 1) ELSE 0]
  BY DEF config, CompileAccess, HasOuter, Outer, Inner
<1>6. ASSUME NEW k \in Levels, j = 2 * k - 1
      PROVE  /\ Times(j) = IF j <= L THEN SizeOf(n[j]) ELSE 0
             /\ j <= L => Amount(j) = IF j % 2 = 1 THEN TermAt(n, j)
                          ELSE TermAt(n, j) - TermAt(n, j - 1) * (SizeAt(n, j - 1) - 1)
  <2>1. Level(j) = k /\ j % 2 = 1
    BY <1>6 DEF Level, Levels
  <2>2. Times(j) = IF j <= L THEN SizeOf(n[j]) ELSE 0
    BY <1>1, <1>2, <1>6, <2>1 DEF Times
  <2>3. j <= L => Amount(j) = TermAt(n, j)
    BY <1>1, <1>3, <1>6, <2>1 DEF Amount, TermAt
  <2>4. QED BY <2>1, <2>2, <2>3
<1>7. ASSUME NEW k \in Levels, j = 2 * k
      PROVE  /\ Times(j) = IF j <= L THEN SizeOf(n[j]) ELSE 0
             /\ j <= L => Amount(j) = IF j % 2 = 1 THEN TermAt(n, j)
                          ELSE TermAt(n, j) - TermAt(n, j - 1) * (SizeAt(n, j - 1) - 1)
  <2>1. Level(j) = k /\ j % 2 = 0 /\ j - 1 = 2 * k - 1
    BY <1>7 DEF Level, Levels
  <2>2. Times(j) = IF j <= L THEN SizeOf(n[j]) ELSE 0
    BY <1>1, <1>4, <1>7, <2>1 DEF Times
  <2>3. ASSUME j <= L
        PROVE  Amount(j) = TermAt(n, j) - TermAt(n, j - 1) * (SizeAt(n, j - 1) - 1)
    <3>1. /\ TermAt(n, j) = TermOf(n[j]) /\ TermAt(n, j - 1) = TermOf(n[j - 1])
          /\ SizeAt(n, j - 1) = SizeOf(n[j - 1])
      <4>1. j <= Len(n) /\ j - 1 <= Len(n)
        BY <1>1, <2>3 DEF Counters
      <4>2. QED BY <4>1, Zenon DEF TermAt, SizeAt
    <3>2. Amount(j) = config.shift[k]
      BY <1>1, <2>1, <2>3 DEF Amount
    <3>3. config.shift[k] = TermOf(n[j]) - TermOf(n[j - 1]) * (SizeOf(n[j - 1]) - 1)
      BY <1>1, <1>5, <1>7, <2>1, <2>3, Zenon
    <3>4. QED BY <3>1, <3>2, <3>3
  <2>4. QED BY <2>1, <2>2, <2>3
<1>8. \E k \in Levels : j = 2 * k - 1 \/ j = 2 * k
  <2>1. j \in {1, 2, 3, 4, 5, 6, 7, 8}
    BY DEF Counters
  <2>2. QED BY <2>1 DEF Levels
<1>9. j <= L => SizeOf(n[j]) \in Nat
  <2>1. \A k \in 1 .. Len(n) : SizeOf(n[k]) \in Nat
    BY NestIs, Zenon
  <2>2. j <= L => j \in 1 .. Len(n)
    BY <1>1 DEF Counters
  <2>3. QED BY <2>1, <2>2
<1>10. QED BY <1>1, <1>6, <1>7, <1>8, <1>9

\* A counter adds within its duty: all of its turns, or the first of each division.
LEMMA DutyIs ==
  ASSUME NEW n, n = Nest(access), Fits(access)
  PROVE  /\ access.dutyDiv = 1 => config.duty = SizeAt(n, 1)
         /\ access.dutyDiv # 1 =>
              config.duty = 1 /\ TermAt(n, 1) = 0 /\ SizeAt(n, 1) = access.dutyDiv
<1>1. PICK L \in 1 .. 7 : L = Len(n)
  BY DEF Fits
<1>2. CASE access.dutyDiv = 1
  BY <1>1, <1>2 DEF config, CompileAccess, SizeAt
<1>3. CASE access.dutyDiv # 1
  <2>1. PICK d \in Nat \ {0}, loops \in Seq(Int \X Nat) :
          d = access.dutyDiv /\ d # 1 /\ loops = access.loops
    BY <1>3 DEF Fits
  <2>2. n = <<<<0, d>>>> \o loops
    BY <1>3, <2>1 DEF Nest
  <2>3. n[1] = <<0, d>>
    BY <2>1, <2>2
  <2>4. SizeAt(n, 1) = d /\ TermAt(n, 1) = 0
    BY <1>1, <2>3 DEF SizeAt, TermAt, SizeOf, TermOf
  <2>5. config.duty = d \div d
    BY <1>1, <1>3, <2>1, <2>3 DEF config, CompileAccess, SizeOf
  <2>6. d \div d = 1
    BY <2>1
  <2>7. QED BY <1>3, <2>1, <2>4, <2>5, <2>6
<1>4. QED BY <1>2, <1>3

-----------------------------------------------------------------------------
(* The registers keep their types.                                          *)

LEMMA NoAccessFits == Fits(NoAccess)
<1>1. PICK loops : loops = << <<0, 0>> >>
  OBVIOUS
<1>2. loops \in Seq(Int \X Nat) /\ Len(loops) = 1
  BY <1>1
<1>3. Nest(NoAccess) = loops
  BY <1>1 DEF Nest, NoAccess
<1>4. NoAccess.start = 0 /\ NoAccess.dutyDiv = 1 /\ NoAccess.loops = loops
  BY <1>1 DEF NoAccess
<1>5. Len(Nest(NoAccess)) = 1
  BY <1>2, <1>3
<1>6. \A j \in 2 .. Len(Nest(NoAccess)) : SizeOf(Nest(NoAccess)[j]) > 0
  BY <1>5
<1>7. NoAccess.start \in Int /\ NoAccess.dutyDiv \in Nat \ {0}
      /\ Len(Nest(NoAccess)) \in 1 .. 7
  BY <1>4, <1>5
<1>8. NoAccess.loops \in Seq(Int \X Nat)
  BY <1>2, <1>4
<1>9. QED BY <1>6, <1>7, <1>8, Zenon DEF Fits

LEMMA AccessFits == AddressTypeOK => Fits(access)
BY NoAccessFits, AddressAssumption DEF AddressTypeOK

LEMMA WrapIs == ASSUME NEW x \in Int PROVE Wrap(x) \in 0 .. 2^ADDR_W - 1
<1>1. PICK h \in Nat \ {0} : h = 2^ADDR_W
  BY WordsAre
<1>2. x % h \in 0 .. h - 1
  OBVIOUS
<1>3. QED BY <1>1, <1>2 DEF Wrap

\* What is added is a whole number, which may be negative.
LEMMA AmountIs ==
  ASSUME Fits(access), NEW j \in Counters, Times(j) # 0
  PROVE  j <= Len(Nest(access)) /\ Amount(j) \in Int
<1>1. Len(Nest(access)) \in 1 .. 7
  BY DEF Fits
<1> DEFINE n == Nest(access)
           L == Len(n)
<1>2. j <= L
  BY <1>1, ConfigIs
<1>3. /\ \A k \in 1 .. Len(n) : SizeAt(n, k) \in Int /\ TermAt(n, k) \in Int
  <2>1. \A k \in 1 .. Len(n) : TermOf(n[k]) \in Int /\ SizeOf(n[k]) \in Nat
    BY <1>1, NestIs, Zenon
  <2>2. QED BY <2>1, <1>1 DEF SizeAt, TermAt
<1>4. Amount(j) = IF j % 2 = 1 THEN TermAt(n, j)
                  ELSE TermAt(n, j) - TermAt(n, j - 1) * (SizeAt(n, j - 1) - 1)
  BY <1>1, <1>2, ConfigIs
<1>5. CASE j % 2 = 1
  BY <1>1, <1>2, <1>3, <1>4, <1>5 DEF Counters
<1>6. CASE j % 2 # 1
  <2>1. j \in 1 .. Len(n) /\ j - 1 \in 1 .. Len(n)
    BY <1>1, <1>2, <1>6 DEF Counters
  <2>2. PICK t \in Int, u \in Int, s \in Int :
          t = TermAt(n, j) /\ u = TermAt(n, j - 1) /\ s = SizeAt(n, j - 1)
    BY <1>3, <2>1
  <2>3. t - u * (s - 1) \in Int
    OBVIOUS
  <2>4. QED BY <1>1, <1>2, <1>4, <1>6, <2>2, <2>3
<1>7. QED BY <1>5, <1>6

\* Where a counter that moves on leaves every other.
LEMMA MoveOnKeepsType ==
  ASSUME AddressTypeOK, NEW j \in Counters, ~AtEnd(j), MoveOn(j),
         UNCHANGED configuration
  PROVE  /\ addr_o' \in 0 .. 2^ADDR_W - 1
         /\ base' \in [2 .. 4 -> 0 .. 2^ADDR_W - 1]
         /\ \A i \in Counters : counter'[i] = 0 \/ counter'[i] \in 1 .. Times(i)' - 1
         /\ ignore' \in BOOLEAN
<1>1. Fits(access)
  BY AccessFits
<1>2. Times(j) # 0 /\ counter[j] + 1 # Times(j)
  BY DEF AtEnd
<1>3. Amount(j) \in Int
  BY <1>1, <1>2, AmountIs
<1>4. PICK h \in Nat \ {0} : h = 2^ADDR_W
  BY WordsAre
<1>5. base \in [2 .. 4 -> 0 .. h - 1] /\ addr_o \in 0 .. h - 1
  BY <1>4 DEF AddressTypeOK
<1>6. From(j) \in 0 .. h - 1
  <2>1. CASE j <= 2
    BY <1>5, <2>1 DEF From
  <2>2. CASE ~(j <= 2)
    <3>1. Level(j) \in 2 .. 4
      BY <2>2 DEF Level, Counters
    <3>2. QED BY <1>5, <2>2, <3>1 DEF From
  <2>3. QED BY <2>1, <2>2
<1>7. Wrap(From(j) + Amount(j)) \in 0 .. h - 1
  BY <1>3, <1>4, <1>6, WrapIs
<1>8. addr_o' \in 0 .. h - 1
  BY <1>5, <1>7 DEF MoveOn
<1>9. base' \in [2 .. 4 -> 0 .. h - 1]
  BY <1>5, <1>7 DEF MoveOn
<1>10. ignore' \in BOOLEAN
  BY DEF MoveOn, AddressTypeOK
<1>11. ASSUME NEW i \in Counters
       PROVE  counter'[i] = 0 \/ counter'[i] \in 1 .. Times(i)' - 1
  <2>1. PICK t \in Nat : t = Times(i)
    BY <1>1, ConfigIs
  <2>2. counter[i] = 0 \/ counter[i] \in 1 .. t - 1
    BY <2>1 DEF AddressTypeOK
  <2>3. Times(i)' = t
    BY <2>1 DEF Times, config, configuration
  <2>4. counter'[i] = IF i < j THEN 0 ELSE IF i = j THEN counter[i] + 1 ELSE counter[i]
    BY DEF MoveOn
  <2>5. i = j => counter[i] + 1 # t /\ t # 0
    BY <1>2, <2>1
  <2>6. QED BY <2>2, <2>3, <2>4, <2>5
<1>12. QED BY <1>4, <1>8, <1>9, <1>10, <1>11

LEMMA ClockKeepsType ==
  ASSUME AddressTypeOK, NEW ready_i \in BOOLEAN, AddressClock(ready_i)
  PROVE  AddressTypeOK'
<1>1. UNCHANGED configuration
  BY DEF AddressClock
<1>2. \A j \in Counters : Times(j)' = Times(j)
  BY <1>1 DEF Times, config, configuration
<1>3. Works \subseteq Nat \X Nat /\ works \in Nat \X Nat
  BY AddressAssumption DEF AddressTypeOK
<1>4. CASE Delayed
  <2>1. delay_counter' \in 0 .. MaxDelay
    BY <1>4, AddressAssumption DEF Delayed, AddressTypeOK
  <2>2. valid_o' \in BOOLEAN /\ doneAddress' \in BOOLEAN
    BY <1>4 DEF Delayed, Begin
  <2>3. QED BY <1>1, <1>2, <1>4, <2>1, <2>2 DEF Delayed, AddressTypeOK, configuration
<1>5. CASE HandOver
  <2>1. work' = 0 \/ work' \in 1 .. works[2] - 1
    <3>1. PICK w \in Nat : w = works[2]
      BY <1>3
    <3>2. work = 0 \/ work \in 1 .. w - 1
      BY <3>1 DEF AddressTypeOK
    <3>3. work' = IF work + 1 >= w THEN 0 ELSE work + 1
      BY <1>5, <3>1 DEF HandOver
    <3>4. QED BY <3>1, <3>2, <3>3
  <2>2. taken' \in Nat /\ delay_counter' \in 0 .. MaxDelay
    BY <1>5 DEF HandOver, AddressTypeOK
  <2>3. CASE \E j \in Moving : MoveOn(j)
    <3>1. PICK j \in Counters : ~AtEnd(j) /\ MoveOn(j)
      BY <2>3 DEF Moving
    <3>2. /\ addr_o' \in 0 .. 2^ADDR_W - 1
          /\ base' \in [2 .. 4 -> 0 .. 2^ADDR_W - 1]
          /\ \A i \in Counters : counter'[i] = 0 \/ counter'[i] \in 1 .. Times(i)' - 1
          /\ ignore' \in BOOLEAN
      BY <1>1, <3>1, MoveOnKeepsType
    <3>3. UNCHANGED <<valid_o, doneAddress>>
      BY <3>1 DEF MoveOn
    <3>4. QED BY <1>1, <2>1, <2>2, <3>2, <3>3 DEF AddressTypeOK, configuration
  <2>4. CASE End
    BY <1>1, <1>2, <2>1, <2>2, <2>4 DEF End, AddressTypeOK, configuration
  <2>5. CASE UNCHANGED <<addr_o, base, counter, ignore, valid_o, doneAddress>>
    BY <1>1, <1>2, <2>1, <2>2, <2>5 DEF AddressTypeOK, configuration
  <2>6. QED BY <1>5, <2>3, <2>4, <2>5 DEF HandOver
<1>6. CASE UNCHANGED <<regs, taken>>
  BY <1>1, <1>2, <1>6 DEF regs, AddressTypeOK, configuration
<1>7. QED BY <1>4, <1>5, <1>6 DEF AddressClock

LEMMA RunKeepsType ==
  ASSUME AddressTypeOK, NEW a \in Accesses, NEW w \in Works, NEW i \in BOOLEAN,
         NEW d \in 0 .. MaxDelay, AddressRun(a, w, i, d)
  PROVE  AddressTypeOK'
<1>1. a.start \in Int
  BY AddressAssumption DEF Fits
<1>2. Wrap(a.start) \in 0 .. 2^ADDR_W - 1
  BY <1>1, WrapIs
<1>3. addr_o' \in 0 .. 2^ADDR_W - 1 /\ base' \in [2 .. 4 -> 0 .. 2^ADDR_W - 1]
  BY <1>2 DEF AddressRun
<1>4. valid_o' \in BOOLEAN /\ doneAddress' \in BOOLEAN
  BY DEF AddressRun, Begin
<1>5. \A j \in Counters : counter'[j] = 0
  BY DEF AddressRun
<1>6. QED BY <1>3, <1>4, <1>5 DEF AddressRun, AddressTypeOK

LEMMA InitTypes == AddressInit => AddressTypeOK
<1>1. 0 \in 0 .. 2^ADDR_W - 1
  <2>1. PICK h \in Nat \ {0} : h = 2^ADDR_W
    BY WordsAre
  <2>2. QED BY <2>1
<1> SUFFICES ASSUME AddressInit PROVE AddressTypeOK
  OBVIOUS
<1>2. base \in [2 .. 4 -> 0 .. 2^ADDR_W - 1] /\ addr_o \in 0 .. 2^ADDR_W - 1
  BY <1>1 DEF AddressInit
<1>3. \A j \in Counters : counter[j] = 0
  BY DEF AddressInit
<1>4. delay_counter \in 0 .. MaxDelay /\ taken \in Nat
  BY AddressAssumption DEF AddressInit
<1>5. {valid_o, ignore, ignored, doneAddress} \subseteq BOOLEAN
  BY DEF AddressInit
<1>6. access = NoAccess /\ works = <<0, 0>> /\ work = 0
  BY DEF AddressInit
<1>7. QED BY <1>2, <1>3, <1>4, <1>5, <1>6 DEF AddressTypeOK

\* The registers of an address generator keep their types.
THEOREM AddressTypes == AddressSpec => []AddressTypeOK
<1>1. AddressInit => AddressTypeOK
  BY InitTypes
<1>2. AddressTypeOK /\ [AddressNext]_addressVars => AddressTypeOK'
  <2> SUFFICES ASSUME AddressTypeOK, [AddressNext]_addressVars PROVE AddressTypeOK'
    OBVIOUS
  <2>1. CASE UNCHANGED addressVars
    BY <2>1 DEF addressVars, configuration, regs, AddressTypeOK, Times, config
  <2>2. CASE AddressNext
    BY <2>2, ClockKeepsType, RunKeepsType DEF AddressNext
  <2>3. QED BY <2>1, <2>2
<1>3. QED BY <1>1, <1>2, PTL DEF AddressSpec

-----------------------------------------------------------------------------
(* Where the counters stand, and what has been handed over.                 *)

\* What the address shows of the sum A[1] of the terms at point I[1]: with
\* ignore_first it stands still in the first period, and runs one period late up
\* to the end of the iterations of the first level.
Shown(n, c, I, A) ==
  IF ignored /\ I[3] = 0
    THEN IF c[2] = 0 THEN 0 ELSE TermAt(n, 1) * c[1] + TermAt(n, 2) * (c[2] - 1)
    ELSE A[1]

\* Of each level the base is what the loops from it outwards come to.
Stands(n, I, A) ==
  /\ Chain(n, counter, I, A)
  /\ Visited = I[1]
  /\ \A k \in 2 .. 4 : base[k] = Wrap(access.start + A[2 * k - 1])
  /\ addr_o = Wrap(access.start + Shown(n, counter, I, A))
  /\ ignore <=> ignored /\ I[2] = 0

\* The count of the work group is that of the addresses handed over.
Groups == works[2] > 0 => work = taken % works[2]

\* Addresses are handed over between the delay and the end of the run.
Phases ==
  /\ valid_o => delay_counter = 0 /\ ~doneAddress /\ Times(1) # 0
  /\ doneAddress => delay_counter = 0 /\ Visited = Points(Nest(access))
  /\ delay_counter > 0 => taken = 0

AddressIInv ==
  /\ AddressTypeOK
  /\ Groups
  /\ Phases
  /\ ignored => Times(2) >= 2
  /\ ~doneAddress => \E I, A : Stands(Nest(access), I, A)

\* The points that t addresses of groups of g, of which the first f move on, come to.
VisitedBy(t, f, g) ==
  IF f = 0 \/ g = 0 THEN t
  ELSE IF f >= g THEN t
  ELSE (t \div g) * f + (IF t % g < f THEN t % g ELSE f)

LEMMA VisitedIs == Visited = VisitedBy(taken, works[1], works[2])
BY DEF Visited, VisitedBy

\* One more address is one more point just when it moves on.
CountsOn(t, f, g, w) ==
  /\ VisitedBy(t, f, g) \in Nat
  /\ VisitedBy(t + 1, f, g) =
       VisitedBy(t, f, g) + (IF f = 0 \/ g = 0 \/ w < f THEN 1 ELSE 0)
  /\ g > 0 => (IF w + 1 >= g THEN 0 ELSE w + 1) = (t + 1) % g
  /\ VisitedBy(0, f, g) = 0

LEMMA VisitedMoves ==
  ASSUME NEW t \in Nat, NEW f \in Nat, NEW g \in Nat, NEW w \in Nat,
         g > 0 => w = t % g
  PROVE  CountsOn(t, f, g, w)
<1> USE DEF CountsOn
<1>1. CASE g = 0
  BY <1>1 DEF VisitedBy
<1>2. CASE g > 0
  <2>1. PICK q \in Nat, r \in 0 .. g - 1 : q = t \div g /\ r = t % g /\ t = r + g * q
    <3>1. t \div g \in Nat /\ t % g \in Nat
      BY <1>2, Divides
    <3>2. t % g \in 0 .. g - 1 /\ t = (t % g) + g * (t \div g)
      BY <1>2
    <3>3. QED BY <3>1, <3>2
  <2>2. w = r
    BY <1>2, <2>1
  <2>3. 0 % g = 0 /\ 0 \div g = 0
    <3>1. 0 + g * 0 = 0 /\ 0 < g
      BY <1>2
    <3>2. QED BY <3>1, Splits
  <2>4. CASE r + 1 < g
    <3>1. t + 1 = (r + 1) + g * q
      BY <2>1
    <3>2. (t + 1) % g = r + 1 /\ (t + 1) \div g = q
      BY <2>4, <3>1, Splits
    <3>3. q * f \in Nat
      OBVIOUS
    <3>4. CASE f = 0 \/ f >= g
      BY <1>2, <2>1, <2>2, <2>3, <2>4, <3>2, <3>4 DEF VisitedBy
    <3>5. CASE ~(f = 0 \/ f >= g)
      <4>1. VisitedBy(t, f, g) = q * f + (IF r < f THEN r ELSE f)
        BY <1>2, <2>1, <3>5 DEF VisitedBy
      <4>2. VisitedBy(t + 1, f, g) = q * f + (IF r + 1 < f THEN r + 1 ELSE f)
        BY <1>2, <3>2, <3>5 DEF VisitedBy
      <4>3. VisitedBy(0, f, g) = 0 * f + (IF 0 < f THEN 0 ELSE f)
        BY <1>2, <2>3, <3>5 DEF VisitedBy
      <4>4. QED BY <1>2, <2>2, <2>4, <3>2, <3>3, <3>5, <4>1, <4>2, <4>3
    <3>6. QED BY <3>4, <3>5
  <2>5. CASE ~(r + 1 < g)
    <3>1. t + 1 = 0 + g * (q + 1) /\ r + 1 = g
      BY <2>1, <2>5
    <3>2. (t + 1) % g = 0 /\ (t + 1) \div g = q + 1
      BY <1>2, <3>1, Splits
    <3>3. q * f \in Nat /\ (q + 1) * f = q * f + f
      OBVIOUS
    <3>4. CASE f = 0 \/ f >= g
      BY <1>2, <2>1, <2>2, <2>3, <3>1, <3>2, <3>4 DEF VisitedBy
    <3>5. CASE ~(f = 0 \/ f >= g)
      <4>1. VisitedBy(t, f, g) = q * f + (IF r < f THEN r ELSE f)
        BY <1>2, <2>1, <3>5 DEF VisitedBy
      <4>2. VisitedBy(t + 1, f, g) = (q + 1) * f + (IF 0 < f THEN 0 ELSE f)
        BY <1>2, <3>2, <3>5 DEF VisitedBy
      <4>3. VisitedBy(0, f, g) = 0 * f + (IF 0 < f THEN 0 ELSE f)
        BY <1>2, <2>3, <3>5 DEF VisitedBy
      <4>4. QED BY <1>2, <2>2, <3>1, <3>2, <3>3, <3>5, <4>1, <4>2, <4>3
    <3>6. QED BY <3>4, <3>5
  <2>6. QED BY <2>4, <2>5
<1>3. QED BY <1>1, <1>2

\* Within a run the counters stand within their loops.
LEMMA CountersWithin ==
  ASSUME AddressTypeOK, Times(1) # 0, NEW n, n = Nest(access)
  PROVE  /\ Entered(n)
         /\ Within(n, counter)
         /\ \A j \in Counters : AtEnd(j) <=> counter[j] + 1 = SizeAt(n, j)
<1>1. Fits(access)
  BY AccessFits
<1>2. PICK L \in 1 .. 7 : L = Len(n)
  BY <1>1 DEF Fits
<1>3. \A j \in Counters : /\ Times(j) = IF j <= L THEN SizeOf(n[j]) ELSE 0
                          /\ Times(j) \in Nat
  BY <1>1, <1>2, ConfigIs
<1>4. Entered(n)
  <2>1. n \in Seq(Int \X Nat) /\ \A k \in 1 .. Len(n) : k > 1 => SizeOf(n[k]) > 0
    BY <1>1, NestIs, Zenon
  <2>2. SizeOf(n[1]) > 0
    BY <1>2, <1>3 DEF Counters
  <2>3. \A k \in 1 .. Len(n) : SizeOf(n[k]) > 0
    BY <1>2, <2>1, <2>2
  <2>4. QED BY <1>2, <2>1, <2>3 DEF Entered
<1>5. ASSUME NEW j \in Counters
      PROVE  /\ counter[j] \in Nat /\ counter[j] < SizeAt(n, j)
             /\ AtEnd(j) <=> counter[j] + 1 = SizeAt(n, j)
  <2>1. PICK t \in Nat : t = Times(j)
    BY <1>3
  <2>2. counter[j] = 0 \/ counter[j] \in 1 .. t - 1
    BY <2>1 DEF AddressTypeOK
  <2>3. CASE j <= L
    <3>1. SizeAt(n, j) = t /\ t # 0
      <4>1. j \in 1 .. Len(n) /\ SizeAt(n, j) = SizeOf(n[j]) /\ t = SizeOf(n[j])
        <5>1. j \in 1 .. Len(n) /\ j <= Len(n)
          BY <1>2, <2>3 DEF Counters
        <5>2. SizeAt(n, j) = SizeOf(n[j])
          BY <5>1, Zenon DEF SizeAt
        <5>3. t = SizeOf(n[j])
          BY <1>3, <2>1, <2>3
        <5>4. QED BY <5>1, <5>2, <5>3
      <4>2. SizeOf(n[j]) > 0
        BY <1>4, <4>1 DEF Entered
      <4>3. QED BY <4>1, <4>2
    <3>2. QED BY <2>1, <2>2, <3>1 DEF AtEnd
  <2>4. CASE ~(j <= L)
    <3>1. SizeAt(n, j) = 1 /\ t = 0
      BY <1>2, <1>3, <2>1, <2>4 DEF SizeAt
    <3>2. QED BY <2>1, <2>2, <3>1 DEF AtEnd
  <2>5. QED BY <2>3, <2>4
<1>6. QED BY <1>4, <1>5 DEF Within

-----------------------------------------------------------------------------
(* A counter moves on.                                                      *)

\* The counters, the point and the sums once counter j has moved on.
CountersOn(c, j) ==
  [i \in Counters |-> IF i < j THEN 0 ELSE IF i = j THEN c[i] + 1 ELSE c[i]]
PointsOn(I, j) == [k \in 1 .. 9 |-> IF k <= j THEN I[k] + 1 ELSE I[k]]
SumsOn(n, A, j) == [k \in 1 .. 9 |-> IF k <= j THEN A[j] + TermAt(n, j) ELSE A[k]]

LEMMA ChainMoves ==
  ASSUME NEW n, Entered(n), NEW c, NEW I, NEW A, Chain(n, c, I, A), Within(n, c),
         NEW j \in Counters,
         \A i \in 1 .. j - 1 : c[i] + 1 = SizeAt(n, i)
  PROVE  Chain(n, CountersOn(c, j), PointsOn(I, j), SumsOn(n, A, j))
<1>1. PICK d, J, B : d = CountersOn(c, j) /\ J = PointsOn(I, j) /\ B = SumsOn(n, A, j)
  OBVIOUS
<1>2. j \in 1 .. 8
  BY DEF Counters
<1>3. TermAt(n, j) \in Int
  BY <1>2, SizesAre
<1>4. \A k \in 1 .. 9 : I[k] \in Nat /\ A[k] \in Int
  BY DEF Chain
<1>5. J = [k \in 1 .. 9 |-> IF k <= j THEN I[k] + 1 ELSE I[k]]
      /\ B = [k \in 1 .. 9 |-> IF k <= j THEN A[j] + TermAt(n, j) ELSE A[k]]
  BY <1>1 DEF PointsOn, SumsOn
<1>6. J \in [1 .. 9 -> Nat]
  BY <1>4, <1>5
<1>7. B \in [1 .. 9 -> Int]
  BY <1>2, <1>3, <1>4, <1>5
<1>8. J[9] = 0 /\ B[9] = 0
  BY <1>2, <1>5 DEF Chain
<1>9. ASSUME NEW k \in Counters
      PROVE  J[k] = d[k] + SizeAt(n, k) * J[k + 1] /\ B[k] = TermAt(n, k) * d[k] + B[k + 1]
  <2>1. PICK x \in Nat, s \in Nat, t \in Int : x = c[k] /\ s = SizeAt(n, k) /\ t = TermAt(n, k)
    BY SizesAre DEF Within, Counters
  <2>2. PICK y \in Nat, z \in Int : y = I[k + 1] /\ z = A[k + 1]
    BY <1>4 DEF Counters
  <2>3. I[k] = x + s * y /\ A[k] = t * x + z
    BY <2>1, <2>2 DEF Chain
  <2>4. d[k] = IF k < j THEN 0 ELSE IF k = j THEN x + 1 ELSE x
    BY <1>1, <2>1 DEF CountersOn
  <2>5. k \in 1 .. 8 /\ k \in 1 .. 9 /\ k + 1 \in 1 .. 9
    BY DEF Counters
  <2>6. CASE k < j
    <3>1. x + 1 = s
      BY <2>1, <2>5, <2>6
    <3>2. J[k] = I[k] + 1 /\ J[k + 1] = y + 1 /\ B[k] = B[k + 1] /\ B[k + 1] \in Int
      BY <1>2, <1>5, <1>7, <2>2, <2>5, <2>6
    <3>3. s * (y + 1) = s * y + s /\ t * 0 = 0
      OBVIOUS
    <3>4. QED BY <2>1, <2>3, <2>4, <2>6, <3>1, <3>2, <3>3
  <2>7. CASE k = j
    <3>1. J[k] = I[k] + 1 /\ J[k + 1] = y /\ B[k] = A[k] + t /\ B[k + 1] = z
      BY <1>2, <1>5, <2>1, <2>2, <2>5, <2>7
    <3>2. t * (x + 1) = t * x + t /\ s * y \in Nat /\ t * x \in Int
      OBVIOUS
    <3>3. d[k] = x + 1
      BY <1>2, <2>4, <2>5, <2>7
    <3>4. J[k] = (x + 1) + s * y
      BY <2>3, <3>1, <3>2
    <3>5. B[k] = (t * x + t) + z
      BY <2>3, <3>1, <3>2
    <3>6. QED BY <2>1, <3>1, <3>2, <3>3, <3>4, <3>5
  <2>8. CASE k > j
    <3>1. J[k] = I[k] /\ J[k + 1] = y /\ B[k] = A[k] /\ B[k + 1] = z
      BY <1>2, <1>5, <2>2, <2>5, <2>8
    <3>2. QED BY <1>2, <2>1, <2>3, <2>4, <2>5, <2>8, <3>1
  <2>9. QED BY <1>2, <2>5, <2>6, <2>7, <2>8
<1>10. Chain(n, d, J, B)
  BY <1>6, <1>7, <1>8, <1>9 DEF Chain
<1>11. QED BY <1>1, <1>10, Zenon

\* A counter of an outer level moves on from the base of its level to the start of
\* its next turn: the shift takes back what the inner loop of the level has added.
LEMMA OuterTarget ==
  ASSUME AddressTypeOK, Times(1) # 0, NEW n, n = Nest(access),
         NEW I, NEW A, Stands(n, I, A), NEW j \in Moving, j > 2
  PROVE  Wrap(From(j) + Amount(j)) = Wrap(access.start + (A[j] + TermAt(n, j)))
<1>1. Entered(n) /\ Within(n, counter)
      /\ \A i \in Counters : AtEnd(i) <=> counter[i] + 1 = SizeAt(n, i)
  BY CountersWithin
<1>2. Fits(access) /\ access.start \in Int
  BY AccessFits DEF Fits
<1>3. j \in 1 .. 8 /\ j \in Counters /\ ~AtEnd(j) /\ \A i \in 1 .. j - 1 : AtEnd(i)
  BY DEF Moving, Counters
<1>4. j <= Len(n) /\ Len(n) \in 1 .. 7
  BY <1>2, <1>3, AmountIs DEF AtEnd, Fits
<1>5. Amount(j) = IF j % 2 = 1 THEN TermAt(n, j)
                  ELSE TermAt(n, j) - TermAt(n, j - 1) * (SizeAt(n, j - 1) - 1)
  BY <1>2, <1>3, <1>4, ConfigIs
<1>6. PICK t \in Int, u \in Int, s \in Int :
        t = TermAt(n, j) /\ u = TermAt(n, j - 1) /\ s = SizeAt(n, j - 1)
  BY <1>1, <1>3, SizesAre
<1>7. PICK a \in Int, b \in Int : a = A[j] /\ b = A[j - 1]
  BY <1>3 DEF Stands, Chain
<1>8. b = u * (s - 1) + a
  <2>1. j - 1 \in Counters /\ AtEnd(j - 1) /\ j - 1 + 1 = j
    BY <1>3 DEF Counters
  <2>2. PICK x \in Nat : x = counter[j - 1]
    BY <1>1, <2>1 DEF Within
  <2>3. x + 1 = s
    BY <1>1, <1>6, <2>1, <2>2
  <2>4. b = u * x + a
    BY <1>6, <1>7, <2>1, <2>2 DEF Stands, Chain
  <2>5. x = s - 1
    BY <2>3
  <2>6. QED BY <2>4, <2>5
<1>9. PICK o \in Int : o = access.start
  BY <1>2
<1>10. Level(j) \in 2 .. 4 /\ From(j) = base[Level(j)]
  BY <1>3 DEF Level, From
<1>11. From(j) = Wrap(o + A[2 * Level(j) - 1])
  BY <1>9, <1>10 DEF Stands
<1>12. CASE j % 2 = 1
  <2>1. 2 * Level(j) - 1 = j
    BY <1>3, <1>12 DEF Level
  <2>2. Wrap(Wrap(o + a) + t) = Wrap((o + a) + t)
    BY WrapAdds
  <2>3. (o + a) + t = o + (a + t)
    OBVIOUS
  <2>4. From(j) = Wrap(o + a)
    BY <1>7, <1>11, <2>1
  <2>5. Amount(j) = t
    BY <1>5, <1>6, <1>12
  <2>6. QED BY <1>6, <1>7, <1>9, <2>2, <2>3, <2>4, <2>5, Zenon
<1>13. CASE j % 2 # 1
  <2>1. 2 * Level(j) - 1 = j - 1
    BY <1>3, <1>13 DEF Level
  <2>2. u * (s - 1) \in Int
    OBVIOUS
  <2>3. Wrap(Wrap(o + b) + (t - u * (s - 1))) = Wrap((o + b) + (t - u * (s - 1)))
    BY <2>2, WrapAdds
  <2>4. (o + b) + (t - u * (s - 1)) = o + (a + t)
    BY <1>8, <2>2
  <2>5. From(j) = Wrap(o + b)
    BY <1>7, <1>11, <2>1
  <2>6. Amount(j) = t - u * (s - 1)
    BY <1>5, <1>6, <1>13
  <2>7. QED BY <1>6, <1>7, <1>9, <2>3, <2>4, <2>5, <2>6, Zenon
<1>14. QED BY <1>12, <1>13

\* In the first level the address moves with what it shows; the base stays.
LEMMA InnerTarget ==
  ASSUME AddressTypeOK, Times(1) # 0, ignored => Times(2) >= 2,
         NEW n, n = Nest(access), NEW I, NEW A, Stands(n, I, A),
         NEW j \in Moving, j <= 2,
         NEW d, d = CountersOn(counter, j), NEW J, J = PointsOn(I, j),
         NEW B, B = SumsOn(n, A, j)
  PROVE  (IF Adds(j) THEN Wrap(From(j) + Amount(j)) ELSE addr_o)
           = Wrap(access.start + Shown(n, d, J, B))
<1>1. Entered(n) /\ Within(n, counter)
      /\ \A i \in Counters : AtEnd(i) <=> counter[i] + 1 = SizeAt(n, i)
  BY CountersWithin
<1>2. Fits(access) /\ access.start \in Int
  BY AccessFits DEF Fits
<1>3. j \in {1, 2} /\ j \in Counters /\ ~AtEnd(j) /\ \A i \in 1 .. j - 1 : AtEnd(i)
  BY DEF Moving, Counters
<1>4. PICK S1 \in Nat, S2 \in Nat, T1 \in Int, T2 \in Int :
        S1 = SizeAt(n, 1) /\ S2 = SizeAt(n, 2) /\ T1 = TermAt(n, 1) /\ T2 = TermAt(n, 2)
  BY <1>1, SizesAre
<1>5. PICK c1 \in Nat, c2 \in Nat :
        c1 = counter[1] /\ c2 = counter[2] /\ c1 < S1 /\ c2 < S2
  BY <1>1, <1>4 DEF Within, Counters
<1>6. PICK A1 \in Int, A2 \in Int, I1 \in Nat, I2 \in Nat, I3 \in Nat :
        A1 = A[1] /\ A2 = A[2] /\ I1 = I[1] /\ I2 = I[2] /\ I3 = I[3]
  <2>1. \A k \in 1 .. 9 : I[k] \in Nat /\ A[k] \in Int
    BY DEF Stands, Chain
  <2>2. 1 \in 1 .. 9 /\ 2 \in 1 .. 9 /\ 3 \in 1 .. 9
    OBVIOUS
  <2>3. QED BY <2>1, <2>2
<1>7. A1 = T1 * c1 + A2 /\ I2 = c2 + S2 * I3
  <2>1. 1 + 1 = 2 /\ 2 + 1 = 3 /\ 1 \in Counters /\ 2 \in Counters
    BY DEF Counters
  <2>2. A[1] = TermAt(n, 1) * counter[1] + A[2] /\ I[2] = counter[2] + SizeAt(n, 2) * I[3]
    BY <2>1 DEF Stands, Chain
  <2>3. QED BY <1>4, <1>5, <1>6, <2>2
<1>8. I2 = 0 <=> c2 = 0 /\ I3 = 0
  <2>1. S2 > 0
    BY <1>5
  <2>2. S2 * I3 \in Nat /\ (I3 > 0 => S2 * I3 > 0) /\ (I3 = 0 => S2 * I3 = 0)
    BY <2>1
  <2>3. QED BY <1>7, <2>2
<1>9. PICK o \in Int : o = access.start
  BY <1>2
<1>10. ignore <=> ignored /\ I2 = 0
  BY <1>6 DEF Stands
<1>11. PICK now \in Int :
         now = IF ignored /\ I3 = 0 THEN IF c2 = 0 THEN 0 ELSE T1 * c1 + T2 * (c2 - 1) ELSE A1
  <2>1. T1 * c1 + T2 * (c2 - 1) \in Int
    OBVIOUS
  <2>2. QED BY <2>1
<1>12. addr_o = Wrap(o + now)
  <2>1. Shown(n, counter, I, A) = now
    BY <1>4, <1>5, <1>6, <1>11 DEF Shown
  <2>2. QED BY <1>9, <2>1 DEF Stands
<1>13. CASE j = 1
  <2>1. d[1] = c1 + 1 /\ d[2] = c2 /\ J[3] = I3 /\ B[1] = A1 + T1
    BY <1>4, <1>5, <1>6, <1>13 DEF CountersOn, PointsOn, SumsOn, Counters
  <2>2. T1 * (c1 + 1) = T1 * c1 + T1
    OBVIOUS
  <2>3. PICK then \in Int :
          then = IF ignored /\ I3 = 0
                   THEN IF c2 = 0 THEN 0 ELSE T1 * (c1 + 1) + T2 * (c2 - 1) ELSE A1 + T1
    <3>1. T1 * (c1 + 1) + T2 * (c2 - 1) \in Int
      OBVIOUS
    <3>2. QED BY <3>1
  <2>4. Shown(n, d, J, B) = then
    BY <1>4, <2>1, <2>3 DEF Shown
  <2>5. CASE ignore
    <3>1. now = 0 /\ then = 0
      BY <1>8, <1>10, <1>11, <2>3, <2>5
    <3>2. ~Adds(j)
      BY <2>5 DEF Adds
    <3>3. QED BY <1>9, <1>12, <2>4, <3>1, <3>2
  <2>6. CASE ~ignore
    <3>1. then = now + T1
      <4>1. ignored /\ I3 = 0 => c2 # 0
        BY <1>8, <1>10, <2>6
      <4>2. T1 * c1 \in Int /\ T2 * (c2 - 1) \in Int
        OBVIOUS
      <4>3. CASE ignored /\ I3 = 0
        BY <1>11, <2>2, <2>3, <4>1, <4>2, <4>3
      <4>4. CASE ~(ignored /\ I3 = 0)
        BY <1>11, <2>3, <4>4
      <4>5. QED BY <4>3, <4>4
    <3>2. Amount(j) = T1 /\ From(j) = addr_o
      <4>1. 1 <= Len(n) /\ 1 \in Counters
        <5>1. Len(n) \in 1 .. 7
          BY <1>1 DEF Entered
        <5>2. QED BY <5>1 DEF Counters
      <4>2. Amount(1) = TermAt(n, 1)
        BY <1>2, <4>1, ConfigIs
      <4>3. QED BY <1>4, <1>13, <4>2 DEF From
    <3>3. CASE Adds(j)
      <4>1. Wrap(Wrap(o + now) + T1) = Wrap((o + now) + T1)
        BY WrapAdds
      <4>2. (o + now) + T1 = o + then
        BY <3>1
      <4>3. QED BY <1>9, <1>12, <2>4, <3>2, <3>3, <4>1, <4>2, Zenon
    <3>4. CASE ~Adds(j)
      <4>1. ~(c1 < config.duty)
        BY <1>5, <2>6, <3>4 DEF Adds
      <4>2. T1 = 0
        BY <1>2, <1>4, <1>5, <4>1, DutyIs
      <4>3. then = now
        BY <3>1, <4>2
      <4>4. QED BY <1>9, <1>12, <2>4, <3>4, <4>3, Zenon
    <3>5. QED BY <3>3, <3>4
  <2>7. QED BY <2>5, <2>6
<1>14. CASE j = 2
  <2>1. d[1] = 0 /\ d[2] = c2 + 1 /\ J[3] = I3 /\ B[1] = A2 + T2
    BY <1>4, <1>5, <1>6, <1>14 DEF CountersOn, PointsOn, SumsOn, Counters
  <2>2. c1 + 1 = S1
    <3>1. AtEnd(1) /\ 1 \in Counters
      BY <1>3, <1>14 DEF Counters
    <3>2. QED BY <1>1, <1>4, <1>5, <3>1
  <2>3. PICK then \in Int : then = IF ignored /\ I3 = 0 THEN T2 * c2 ELSE A2 + T2
    <3>1. T2 * c2 \in Int
      OBVIOUS
    <3>2. QED BY <3>1
  <2>4. Shown(n, d, J, B) = then
    <3>1. c2 + 1 # 0 /\ T1 * 0 + T2 * (c2 + 1 - 1) = T2 * c2
      OBVIOUS
    <3>2. QED BY <1>4, <2>1, <2>3, <3>1 DEF Shown
  <2>5. CASE ignore
    <3>1. now = 0 /\ then = 0
      <4>1. ignored /\ I3 = 0 /\ c2 = 0
        BY <1>8, <1>10, <2>5
      <4>2. QED BY <1>11, <2>3, <4>1
    <3>2. ~Adds(j)
      BY <2>5 DEF Adds
    <3>3. QED BY <1>9, <1>12, <2>4, <3>1, <3>2
  <2>6. CASE ~ignore
    <3>1. PICK m \in Int : m = T2 - T1 * c1
      OBVIOUS
    <3>2. then = now + m
      <4>1. ignored /\ I3 = 0 => c2 # 0
        BY <1>8, <1>10, <2>6
      <4>2. T2 * (c2 - 1) = T2 * c2 - T2 /\ T1 * c1 \in Int /\ T2 * c2 \in Int
        OBVIOUS
      <4>3. CASE ignored /\ I3 = 0
        BY <1>11, <2>3, <3>1, <4>1, <4>2, <4>3
      <4>4. CASE ~(ignored /\ I3 = 0)
        BY <1>7, <1>11, <2>3, <3>1, <4>2, <4>4
      <4>5. QED BY <4>3, <4>4
    <3>3. Amount(j) = m /\ From(j) = addr_o
      <4>1. 2 <= Len(n) /\ 2 \in Counters
        BY <1>2, <1>3, <1>14, AmountIs DEF AtEnd
      <4>2. Amount(2) = TermAt(n, 2) - TermAt(n, 2 - 1) * (SizeAt(n, 2 - 1) - 1)
        BY <1>2, <4>1, ConfigIs
      <4>3. 2 - 1 = 1 /\ S1 - 1 = c1
        BY <2>2
      <4>4. QED BY <1>4, <1>14, <3>1, <4>2, <4>3 DEF From
    <3>4. Adds(j)
      BY <1>14, <2>6 DEF Adds
    <3>5. Wrap(Wrap(o + now) + m) = Wrap((o + now) + m)
      BY WrapAdds
    <3>6. (o + now) + m = o + then
      BY <3>2
    <3>7. QED BY <1>9, <1>12, <2>4, <3>3, <3>4, <3>5, <3>6, Zenon
  <2>7. QED BY <2>5, <2>6
<1>15. QED BY <1>3, <1>13, <1>14

LEMMA MoveOnStands ==
  ASSUME AddressTypeOK, Times(1) # 0, ignored => Times(2) >= 2,
         NEW n, n = Nest(access), NEW I, NEW A, Stands(n, I, A),
         NEW j \in Moving, MoveOn(j), UNCHANGED configuration, Visited' = Visited + 1
  PROVE  \E J, B : Stands(n, J, B)'
<1>1. PICK d, J, B : d = CountersOn(counter, j) /\ J = PointsOn(I, j) /\ B = SumsOn(n, A, j)
  OBVIOUS
<1>2. Entered(n) /\ Within(n, counter)
      /\ \A i \in Counters : AtEnd(i) <=> counter[i] + 1 = SizeAt(n, i)
  BY CountersWithin
<1>3. j \in 1 .. 8 /\ j \in Counters /\ ~AtEnd(j) /\ \A i \in 1 .. j - 1 : AtEnd(i)
  BY DEF Moving, Counters
<1>4. counter' = d
  BY <1>1 DEF MoveOn, CountersOn
<1>5. Chain(n, d, J, B)
  <2>1. \A i \in 1 .. j - 1 : counter[i] + 1 = SizeAt(n, i)
    BY <1>2, <1>3 DEF Counters
  <2>2. Chain(n, counter, I, A)
    BY DEF Stands
  <2>3. QED BY <1>1, <1>2, <1>3, <2>1, <2>2, ChainMoves
<1>6. \A k \in 1 .. 9 : I[k] \in Nat
  BY DEF Stands, Chain
<1>7. J = [k \in 1 .. 9 |-> IF k <= j THEN I[k] + 1 ELSE I[k]]
      /\ B = [k \in 1 .. 9 |-> IF k <= j THEN A[j] + TermAt(n, j) ELSE A[k]]
  BY <1>1 DEF PointsOn, SumsOn
<1>8. Visited' = J[1]
  BY <1>3, <1>7 DEF Stands
<1>9. UNCHANGED <<access, ignored>>
  BY DEF configuration
<1>10. CASE j <= 2
  <2>1. addr_o' = Wrap(access.start + Shown(n, d, J, B))
    BY <1>1, <1>10, InnerTarget DEF MoveOn
  <2>2. \A k \in 2 .. 4 : base'[k] = base[k] /\ B[2 * k - 1] = A[2 * k - 1]
    BY <1>3, <1>7, <1>10 DEF MoveOn
  <2>3. \A k \in 2 .. 4 : base'[k] = Wrap(access.start + B[2 * k - 1])
    BY <2>2 DEF Stands
  <2>4. ignore' <=> ignored /\ J[2] = 0
    <3>1. CASE j = 1
      BY <1>7, <3>1 DEF MoveOn, Stands
    <3>2. CASE j # 1
      BY <1>3, <1>6, <1>7, <1>10, <3>2 DEF MoveOn
    <3>3. QED BY <3>1, <3>2
  <2>5. Stands(n, J, B)'
    BY <1>4, <1>5, <1>8, <1>9, <2>1, <2>3, <2>4 DEF Stands, Shown, Wrap
  <2>6. QED BY <2>5
<1>11. CASE j > 2
  <2>1. Wrap(From(j) + Amount(j)) = Wrap(access.start + (A[j] + TermAt(n, j)))
    BY <1>11, OuterTarget
  <2>2. ~ignore
    <3>1. SUFFICES ASSUME ignore PROVE FALSE
      OBVIOUS
    <3>2. ignored /\ I[2] = 0
      BY <3>1 DEF Stands
    <3>3. AtEnd(2) /\ 2 \in Counters /\ 2 + 1 = 3
      BY <1>3, <1>11 DEF Counters
    <3>4. PICK x \in Nat, s \in Nat, i \in Nat :
            x = counter[2] /\ s = SizeAt(n, 2) /\ i = I[3] /\ x + 1 = s
      BY <1>2, <1>6, <3>3, SizesAre DEF Within
    <3>5. x + s * i = 0
      BY <3>2, <3>3, <3>4 DEF Stands, Chain
    <3>6. s * i \in Nat
      OBVIOUS
    <3>7. s = 1
      BY <3>4, <3>5, <3>6
    <3>8. Times(2) >= 2
      BY <3>2
    <3>9. Times(2) = SizeAt(n, 2)
      <4>1. Fits(access)
        BY AccessFits
      <4>2. Times(2) = IF 2 <= Len(n) THEN SizeOf(n[2]) ELSE 0
        BY <3>3, <4>1, ConfigIs
      <4>3. QED BY <3>8, <4>2 DEF SizeAt
    <3>10. QED BY <3>4, <3>7, <3>8, <3>9
  <2>3. Adds(j)
    BY <1>11, <2>2 DEF Adds
  <2>4. addr_o' = Wrap(access.start + (A[j] + TermAt(n, j)))
    BY <2>1, <2>3 DEF MoveOn
  <2>5. Shown(n, d, J, B) = A[j] + TermAt(n, j)
    <3>1. J[3] = I[3] + 1 /\ J[3] # 0
      BY <1>3, <1>6, <1>7, <1>11
    <3>2. B[1] = A[j] + TermAt(n, j)
      BY <1>3, <1>7, <1>11
    <3>3. QED BY <3>1, <3>2 DEF Shown
  <2>6. ASSUME NEW k \in 2 .. 4 PROVE base'[k] = Wrap(access.start + B[2 * k - 1])
    <3>1. base'[k] = IF k <= Level(j) THEN Wrap(From(j) + Amount(j)) ELSE base[k]
      BY <1>11, <2>3 DEF MoveOn
    <3>2. k <= Level(j) <=> 2 * k - 1 <= j
      BY <1>3 DEF Level
    <3>3. 2 * k - 1 \in 1 .. 9
      OBVIOUS
    <3>4. B[2 * k - 1] = IF 2 * k - 1 <= j THEN A[j] + TermAt(n, j) ELSE A[2 * k - 1]
      BY <1>7, <3>3, Zenon
    <3>5. base[k] = Wrap(access.start + A[2 * k - 1])
      BY DEF Stands
    <3>6. QED BY <2>1, <3>1, <3>2, <3>4, <3>5, Zenon
  <2>7. ~ignore' /\ J[2] # 0
    BY <1>3, <1>6, <1>7, <1>11 DEF MoveOn
  <2>8. Stands(n, J, B)'
    BY <1>4, <1>5, <1>8, <1>9, <2>4, <2>5, <2>6, <2>7 DEF Stands, Shown, Wrap
  <2>9. QED BY <2>8
<1>12. QED BY <1>3, <1>10, <1>11

-----------------------------------------------------------------------------
(* The invariant is inductive.                                              *)

\* One more address is handed over.
LEMMA HandsOver ==
  ASSUME AddressTypeOK, Groups, HandOver, UNCHANGED configuration
  PROVE  /\ Visited \in Nat
         /\ Visited' = IF Works_i THEN Visited + 1 ELSE Visited
         /\ Groups'
<1>1. works \in Nat \X Nat /\ taken \in Nat
  BY AddressAssumption DEF AddressTypeOK
<1>2. PICK f \in Nat, g \in Nat, t \in Nat : f = works[1] /\ g = works[2] /\ t = taken
  BY <1>1
<1>3. PICK w \in Nat : w = work
  BY <1>1 DEF AddressTypeOK
<1>4. g > 0 => w = t % g
  BY <1>2, <1>3 DEF Groups
<1>5. /\ VisitedBy(t, f, g) \in Nat
      /\ VisitedBy(t + 1, f, g) =
           VisitedBy(t, f, g) + (IF f = 0 \/ g = 0 \/ w < f THEN 1 ELSE 0)
      /\ g > 0 => (IF w + 1 >= g THEN 0 ELSE w + 1) = (t + 1) % g
  <2>1. CountsOn(t, f, g, w)
    BY <1>4, VisitedMoves
  <2>2. QED BY <2>1 DEF CountsOn
<1>6. Visited = VisitedBy(t, f, g)
  BY <1>2, VisitedIs
<1>7. taken' = t + 1 /\ works' = works
  BY <1>2 DEF HandOver, configuration
<1>8. Visited' = VisitedBy(t + 1, f, g)
  BY <1>2, <1>7 DEF Visited, VisitedBy
<1>9. Works_i <=> f = 0 \/ g = 0 \/ w < f
  BY <1>2, <1>3 DEF Works_i
<1>10. work' = IF w + 1 >= g THEN 0 ELSE w + 1
  BY <1>2, <1>3 DEF HandOver
<1>11. Groups'
  BY <1>2, <1>5, <1>7, <1>10 DEF Groups
<1>12. QED BY <1>5, <1>6, <1>8, <1>9, <1>11

\* When no counter is left to move on, all are at their ends.
LEMMA NoneMoving == Moving = {} => \A j \in Counters : AtEnd(j)
<1>1. SUFFICES ASSUME NEW j \in Counters, ~AtEnd(j) PROVE Moving # {}
  OBVIOUS
<1>2. PICK Open : Open = {i \in Counters : ~AtEnd(i)}
  OBVIOUS
<1>3. Open \subseteq Nat /\ j \in Open
  BY <1>1, <1>2 DEF Counters
<1>4. PICK m \in Open : \A i \in Open : ~(<<i, m>> \in OpToRel(<, Nat))
  BY <1>3, WFMin, NatLessThanWellFounded
<1>5. ASSUME NEW i \in 1 .. m - 1 PROVE AtEnd(i)
  <2>1. i \in Counters /\ i < m /\ i \in Nat /\ m \in Nat
    <3>1. m \in 1 .. 8
      BY <1>2 DEF Counters
    <3>2. QED BY <3>1 DEF Counters
  <2>2. <<i, m>> \in OpToRel(<, Nat)
    BY <2>1 DEF OpToRel
  <2>3. QED BY <1>2, <1>4, <2>1, <2>2
<1>6. m \in Moving
  BY <1>2, <1>4, <1>5 DEF Moving
<1>7. QED BY <1>6

LEMMA HandOverKeeps ==
  ASSUME AddressIInv, HandOver, delay_counter = 0, UNCHANGED configuration, AddressTypeOK'
  PROVE  AddressIInv'
<1>1. /\ AddressTypeOK /\ Groups /\ valid_o /\ ~doneAddress /\ Times(1) # 0
      /\ ignored => Times(2) >= 2
  BY DEF AddressIInv, Phases, HandOver
<1>2. PICK n : n = Nest(access)
  OBVIOUS
<1>3. PICK I, A : Stands(n, I, A)
  BY <1>1, <1>2 DEF AddressIInv
<1>4. Visited \in Nat /\ Groups' /\ Visited' = IF Works_i THEN Visited + 1 ELSE Visited
  BY <1>1, HandsOver
<1>5. UNCHANGED <<access, works, ignored>> /\ Nest(access)' = n
  BY <1>2 DEF configuration
<1>6. Times(1)' = Times(1) /\ Times(2)' = Times(2)
  BY <1>5 DEF Times, config
<1>7. UNCHANGED delay_counter
  BY DEF HandOver
<1>8. CASE Works_i /\ \E j \in Moving : MoveOn(j)
  <2>1. PICK j \in Moving : MoveOn(j)
    BY <1>8
  <2>2. Visited' = Visited + 1
    BY <1>4, <1>8
  <2>3. \E J, B : Stands(n, J, B)'
    BY <1>1, <1>2, <1>3, <2>1, <2>2, MoveOnStands
  <2>4. UNCHANGED <<valid_o, doneAddress>>
    BY <2>1 DEF MoveOn
  <2>5. Phases'
    BY <1>1, <1>6, <1>7, <2>4 DEF Phases
  <2>6. \E J, B : Stands(Nest(access), J, B)'
    BY <1>5, <2>3 DEF Stands, Shown
  <2>7. QED BY <1>1, <1>4, <1>5, <1>6, <2>5, <2>6 DEF AddressIInv
<1>9. CASE Works_i /\ Moving = {} /\ End
  <2>1. \A j \in Counters : AtEnd(j)
    BY <1>9, NoneMoving
  <2>2. Entered(n) /\ Within(n, counter)
        /\ \A j \in Counters : AtEnd(j) <=> counter[j] + 1 = SizeAt(n, j)
    BY <1>1, <1>2, CountersWithin
  <2>3. Chain(n, counter, I, A) /\ Visited = I[1]
    BY <1>3 DEF Stands
  <2>4. I[1] + 1 = Points(n)
    <3>1. \A k \in Counters : counter[k] + 1 = SizeAt(n, k)
      BY <2>1, <2>2
    <3>2. QED BY <2>2, <2>3, <3>1, ChainPoints
  <2>5. Visited' = Points(Nest(access))'
    BY <1>4, <1>5, <1>9, <2>3, <2>4
  <2>6. doneAddress' /\ ~valid_o'
    BY <1>9 DEF End
  <2>7. Phases'
    BY <1>7, <2>5, <2>6 DEF Phases
  <2>8. QED BY <1>1, <1>4, <1>5, <1>6, <2>6, <2>7 DEF AddressIInv
<1>10. CASE ~Works_i /\ UNCHANGED <<addr_o, base, counter, ignore, valid_o, doneAddress>>
  <2>1. Visited' = Visited
    BY <1>4, <1>10
  <2>2. Stands(n, I, A)'
    BY <1>3, <1>5, <1>10, <2>1 DEF Stands, Shown, Wrap
  <2>3. Phases'
    BY <1>1, <1>6, <1>7, <1>10 DEF Phases
  <2>4. \E J, B : Stands(Nest(access), J, B)'
    BY <1>5, <2>2 DEF Stands, Shown
  <2>5. QED BY <1>1, <1>4, <1>5, <1>6, <2>3, <2>4 DEF AddressIInv
<1>11. QED BY <1>8, <1>9, <1>10 DEF HandOver

\* Nothing has been handed over: no point is visited.
LEMMA NoneTaken ==
  AddressTypeOK /\ taken = 0 => Visited = 0
<1> SUFFICES ASSUME AddressTypeOK, taken = 0 PROVE Visited = 0
  OBVIOUS
<1>1. works \in Nat \X Nat
  BY AddressAssumption DEF AddressTypeOK
<1>2. PICK f \in Nat, g \in Nat : f = works[1] /\ g = works[2]
  BY <1>1
<1>3. PICK t \in Nat, w \in Nat : t = 0 /\ (g > 0 => w = t % g)
  <2>1. g > 0 => 0 % g \in Nat
    BY Divides
  <2>2. CASE g > 0
    BY <2>1, <2>2
  <2>3. CASE ~(g > 0)
    BY <2>3
  <2>4. QED BY <2>2, <2>3
<1>4. VisitedBy(0, f, g) = 0
  <2>1. CountsOn(t, f, g, w)
    BY <1>3, VisitedMoves
  <2>2. QED BY <2>1 DEF CountsOn
<1>5. QED BY <1>2, <1>4, VisitedIs

\* A run of nothing visits nothing.
LEMMA NothingToVisit ==
  AddressTypeOK /\ Times(1) = 0 => Points(Nest(access)) = 0
<1> SUFFICES ASSUME AddressTypeOK, Times(1) = 0 PROVE Points(Nest(access)) = 0
  OBVIOUS
<1>1. Fits(access)
  BY AccessFits
<1>2. PICK n : n = Nest(access)
  OBVIOUS
<1>3. n \in Seq(Int \X Nat) /\ Len(n) \in 1 .. 7
  BY <1>1, <1>2, NestIs DEF Fits
<1>4. 1 \in Counters /\ 1 <= Len(n)
  <2>1. PICK L \in 1 .. 7 : L = Len(n)
    BY <1>3
  <2>2. QED BY <2>1 DEF Counters
<1>5. SizeOf(n[1]) = 0
  BY <1>1, <1>2, <1>4, ConfigIs
<1>6. QED BY <1>2, <1>3, <1>5, EmptyNest

\* A run begins once its delay is over.
LEMMA Begins ==
  ASSUME AddressTypeOK', taken' = 0, NEW over \in BOOLEAN, over <=> delay_counter' = 0,
         NEW a, access' = a, Begin(over, a)
  PROVE  Phases'
<1>1. CompileAccess(a).per[1] = Times(1)'
  <2>1. Level(1) = 1 /\ 1 % 2 = 1
    BY DEF Level
  <2>2. QED BY <2>1 DEF Times, config
<1>2. Visited' = 0
  <2>1. (AddressTypeOK /\ taken = 0 => Visited = 0)'
    BY NoneTaken, PTL
  <2>2. QED BY <2>1
<1>3. Times(1)' = 0 => Points(Nest(access))' = 0
  <2>1. (AddressTypeOK /\ Times(1) = 0 => Points(Nest(access)) = 0)'
    BY NothingToVisit, PTL
  <2>2. QED BY <2>1
<1>4. QED BY <1>1, <1>2, <1>3 DEF Begin, Phases

LEMMA DelayedKeeps ==
  ASSUME AddressIInv, Delayed, UNCHANGED configuration, AddressTypeOK'
  PROVE  AddressIInv'
<1>1. delay_counter \in Nat \ {0} /\ taken = 0 /\ ~doneAddress
  BY AddressAssumption DEF AddressIInv, AddressTypeOK, Delayed, Phases
<1>2. UNCHANGED <<access, works, ignored, addr_o, base, counter, ignore, taken>>
      /\ Nest(access)' = Nest(access) /\ work' = 0
  BY DEF Delayed, configuration
<1>3. PICK I, A : Stands(Nest(access), I, A)
  BY <1>1 DEF AddressIInv
<1>4. Stands(Nest(access), I, A)'
  BY <1>2, <1>3 DEF Stands, Shown, Wrap, Visited
<1>5. Phases'
  <2>1. Begin(delay_counter = 1, access) /\ delay_counter' = delay_counter - 1
    BY DEF Delayed
  <2>2. delay_counter = 1 <=> delay_counter' = 0
    BY <1>1, <2>1
  <2>3. PICK over \in BOOLEAN : over <=> delay_counter = 1
    OBVIOUS
  <2>4. Begin(over, access)
    BY <2>1, <2>3 DEF Begin
  <2>5. QED BY <1>1, <1>2, <2>2, <2>3, <2>4, Begins
<1>6. Groups'
  <2>1. works \in Nat \X Nat
    BY AddressAssumption DEF AddressIInv, AddressTypeOK
  <2>2. PICK g \in Nat : g = works[2]
    BY <2>1
  <2>3. g > 0 => 0 % g = 0
    <3>1. g > 0 => 0 + g * 0 = 0
      OBVIOUS
    <3>2. QED BY <3>1, Splits
  <2>4. QED BY <1>1, <1>2, <2>2, <2>3 DEF Groups
<1>7. (ignored => Times(2) >= 2)'
  BY <1>2 DEF AddressIInv, Times, config
<1>8. QED BY <1>4, <1>5, <1>6, <1>7 DEF AddressIInv

LEMMA RunKeeps ==
  ASSUME AddressIInv, AddressTypeOK', NEW a \in Accesses, NEW w \in Works,
         NEW i \in BOOLEAN, NEW d \in 0 .. MaxDelay, i => MayIgnore(a),
         AddressRun(a, w, i, d)
  PROVE  AddressIInv'
<1>1. Fits(a) /\ a.start \in Int
  BY AddressAssumption DEF Fits
<1>2. /\ access' = a /\ ignored' = i /\ ignore' = i /\ taken' = 0 /\ work' = 0
      /\ works' = w /\ delay_counter' = d
      /\ addr_o' = Wrap(a.start) /\ base' = [k \in 2 .. 4 |-> Wrap(a.start)]
      /\ counter' = [j \in Counters |-> 0] /\ Begin(d = 0, a)
  BY DEF AddressRun
<1>3. PICK n : n = Nest(a)
  OBVIOUS
<1>4. PICK I, A : I = [k \in 1 .. 9 |-> 0] /\ A = [k \in 1 .. 9 |-> 0]
  OBVIOUS
<1>5. \A k \in Counters : SizeAt(n, k) \in Nat /\ TermAt(n, k) \in Int
  <2>1. \A k \in 1 .. Len(n) : SizeOf(n[k]) \in Nat /\ TermOf(n[k]) \in Int
    BY <1>1, <1>3, NestIs, Zenon
  <2>2. PICK L \in 1 .. 7 : L = Len(n)
    BY <1>1, <1>3 DEF Fits
  <2>3. QED BY <2>1, <2>2 DEF SizeAt, TermAt, Counters
<1>6. Chain(n, counter', I, A)
  <2>1. ASSUME NEW k \in Counters
        PROVE  /\ I[k] = counter'[k] + SizeAt(n, k) * I[k + 1]
               /\ A[k] = TermAt(n, k) * counter'[k] + A[k + 1]
    <3>1. I[k] = 0 /\ I[k + 1] = 0 /\ A[k] = 0 /\ A[k + 1] = 0 /\ counter'[k] = 0
      BY <1>2, <1>4 DEF Counters
    <3>2. PICK s \in Nat, t \in Int : s = SizeAt(n, k) /\ t = TermAt(n, k)
      BY <1>5
    <3>3. QED BY <3>1, <3>2
  <2>2. QED BY <1>4, <2>1 DEF Chain
<1>7. Visited' = I[1]
  <2>1. (AddressTypeOK /\ taken = 0 => Visited = 0)'
    BY NoneTaken, PTL
  <2>2. QED BY <1>2, <1>4, <2>1
<1>8. Shown(n, counter, I, A)' = 0
  <2>1. I[3] = 0 /\ A[1] = 0 /\ counter'[2] = 0
    BY <1>2, <1>4 DEF Counters
  <2>2. QED BY <2>1 DEF Shown
<1>9. a.start + 0 = a.start
  BY <1>1
<1>10. Stands(n, I, A)'
  <2>1. \A k \in 2 .. 4 : base'[k] = Wrap(a.start + A[2 * k - 1])
    <3>1. \A k \in 2 .. 4 : A[2 * k - 1] = 0 /\ base'[k] = Wrap(a.start)
      BY <1>2, <1>4
    <3>2. QED BY <1>9, <3>1
  <2>2. addr_o' = Wrap(a.start + Shown(n, counter, I, A)')
    BY <1>2, <1>8, <1>9
  <2>3. ignore' <=> ignored' /\ I[2] = 0
    BY <1>2, <1>4
  <2>4. QED BY <1>2, <1>6, <1>7, <2>1, <2>2, <2>3 DEF Stands, Wrap
<1>11. \E J, B : Stands(Nest(access), J, B)'
  BY <1>2, <1>3, <1>10 DEF Stands, Shown
<1>12. Phases'
  <2>1. PICK over \in BOOLEAN : over <=> d = 0
    OBVIOUS
  <2>2. Begin(over, a)
    BY <1>2, <2>1 DEF Begin
  <2>3. QED BY <1>2, <2>1, <2>2, Begins
<1>13. Groups'
  <2>1. PICK g \in Nat : g = w[2]
    BY AddressAssumption
  <2>2. g > 0 => 0 % g = 0
    <3>1. g > 0 => 0 + g * 0 = 0
      OBVIOUS
    <3>2. QED BY <3>1, Splits
  <2>3. QED BY <1>2, <2>1, <2>2 DEF Groups
<1>14. (ignored => Times(2) >= 2)'
  <2>1. Level(2) = 1 /\ 2 % 2 = 0
    BY DEF Level
  <2>2. Times(2)' = CompileAccess(a).iter[1]
    BY <1>2, <2>1 DEF Times, config
  <2>3. QED BY <1>2, <2>2 DEF MayIgnore
<1>15. QED BY <1>11, <1>12, <1>13, <1>14 DEF AddressIInv

LEMMA AddressInvariant == AddressSpec => []AddressIInv
<1>1. AddressInit => AddressIInv
  <2> SUFFICES ASSUME AddressInit PROVE AddressIInv
    OBVIOUS
  <2>1. AddressTypeOK
    BY InitTypes
  <2>2. access = NoAccess /\ taken = 0 /\ works = <<0, 0>> /\ ~ignored /\ doneAddress /\ ~valid_o
        /\ delay_counter = 0
    BY DEF AddressInit
  <2>3. Times(1) = 0
    <3>1. Level(1) = 1 /\ 1 % 2 = 1 /\ 1 \in Levels
      BY DEF Level, Levels
    <3>2. PICK n : n = Nest(NoAccess)
      OBVIOUS
    <3>3. n = << <<0, 0>> >>
      BY <3>2 DEF Nest, NoAccess
    <3>4. SizeOf(n[1]) = 0 /\ Len(n) = 1
      BY <3>3 DEF SizeOf
    <3>5. config.per[1] = 0
      BY <2>2, <3>1, <3>2, <3>4 DEF config, CompileAccess, HasInner, Inner
    <3>6. QED BY <3>1, <3>5 DEF Times
  <2>4. Visited = 0 /\ Points(Nest(access)) = 0
    BY <2>1, <2>2, <2>3, NoneTaken, NothingToVisit
  <2>5. Phases /\ Groups
    BY <2>2, <2>4 DEF Phases, Groups
  <2>6. QED BY <2>1, <2>2, <2>5 DEF AddressIInv
<1>2. AddressIInv /\ AddressTypeOK' /\ [AddressNext]_addressVars => AddressIInv'
  <2> SUFFICES ASSUME AddressIInv, AddressTypeOK', [AddressNext]_addressVars PROVE AddressIInv'
    OBVIOUS
  <2>1. ASSUME UNCHANGED addressVars PROVE AddressIInv'
    <3>1. UNCHANGED <<access, works, ignored, delay_counter, valid_o, addr_o, base, counter,
                      ignore, work, doneAddress, taken>>
      BY <2>1 DEF addressVars, configuration, regs
    <3>2. Groups' /\ Phases' /\ (ignored => Times(2) >= 2)'
      BY <3>1 DEF AddressIInv, Groups, Phases, Times, config, Visited
    <3>3. ASSUME ~doneAddress' PROVE \E I, A : Stands(Nest(access), I, A)'
      <4>1. PICK I, A : Stands(Nest(access), I, A)
        BY <3>1, <3>3 DEF AddressIInv
      <4>2. Stands(Nest(access), I, A)'
        BY <3>1, <4>1 DEF Stands, Shown, Wrap, Visited
      <4>3. QED BY <4>2
    <3>4. QED BY <3>2, <3>3 DEF AddressIInv
  <2>2. ASSUME NEW ready_i \in BOOLEAN, AddressClock(ready_i) PROVE AddressIInv'
    <3>1. UNCHANGED configuration
      BY <2>2 DEF AddressClock
    <3>2. CASE Delayed
      BY <3>1, <3>2, DelayedKeeps
    <3>3. CASE delay_counter = 0 /\ HandOver
      BY <3>1, <3>3, HandOverKeeps
    <3>4. CASE UNCHANGED <<regs, taken>>
      BY <2>1, <3>1, <3>4 DEF addressVars
    <3>5. QED BY <2>2, <3>2, <3>3, <3>4 DEF AddressClock
  <2>3. ASSUME NEW a \in Accesses, NEW w \in Works, NEW i \in BOOLEAN,
               NEW d \in 0 .. MaxDelay, i => MayIgnore(a), AddressRun(a, w, i, d)
        PROVE  AddressIInv'
    BY <2>3, RunKeeps
  <2>4. QED BY <2>1, <2>2, <2>3 DEF AddressNext
<1>3. QED BY <1>1, <1>2, AddressTypes, PTL DEF AddressSpec

-----------------------------------------------------------------------------
(* What the invariant says of the addresses.                                *)

\* What is shown of a point is the sum of the reference at the point that is due.
LEMMA ShownIsDue ==
  ASSUME AddressTypeOK, Times(1) # 0, ignored => Times(2) >= 2,
         NEW n, n = Nest(access), NEW I, NEW A, Stands(n, I, A)
  PROVE  Shown(n, counter, I, A) = Addresses(n, Due)
<1>1. Entered(n) /\ Within(n, counter)
  BY CountersWithin
<1>2. PICK L \in 1 .. 7 : L = Len(n)
  BY <1>1 DEF Entered
<1>3. Chain(n, counter, I, A) /\ Visited = I[1]
  BY DEF Stands
<1>4. Agree(n, I, A)
  BY <1>1, <1>3, ChainSums
<1>5. PICK g : g = SumsFrom(n)
  OBVIOUS
<1>6. SumUp(g, n, L)
  <2>1. n \in Seq(Int \X Nat) /\ L \in Nat /\ L = Len(n) /\ \A k \in 1 .. L : SizeOf(n[k]) > 0
    BY <1>1, <1>2 DEF Entered
  <2>2. QED BY <1>5, <2>1, SumsAre, Zenon
<1>7. g[1][I[1]] = A[1]
  BY <1>2, <1>4, <1>5 DEF Agree
<1>8. Addresses(n, Due) = g[1][Due]
  BY <1>5 DEF Addresses
<1>9. PICK S1 \in Nat, S2 \in Nat, T1 \in Int, T2 \in Int :
        S1 = SizeAt(n, 1) /\ S2 = SizeAt(n, 2) /\ T1 = TermAt(n, 1) /\ T2 = TermAt(n, 2)
  BY <1>1, SizesAre
<1>10. PICK c1 \in Nat, c2 \in Nat :
         c1 = counter[1] /\ c2 = counter[2] /\ c1 < S1 /\ c2 < S2
  BY <1>1, <1>9 DEF Within, Counters
<1>11. PICK I1 \in Nat, I2 \in Nat, I3 \in Nat :
         /\ I1 = I[1] /\ I2 = I[2] /\ I3 = I[3]
         /\ I1 = c1 + S1 * I2 /\ I2 = c2 + S2 * I3
  <2>1. I[1] \in Nat /\ I[2] \in Nat /\ I[3] \in Nat
    BY <1>3 DEF Chain
  <2>2. 1 \in Counters /\ 2 \in Counters /\ 1 + 1 = 2 /\ 2 + 1 = 3
    BY DEF Counters
  <2>3. I[1] = counter[1] + SizeAt(n, 1) * I[2] /\ I[2] = counter[2] + SizeAt(n, 2) * I[3]
    BY <1>3, <2>2 DEF Chain
  <2>4. QED BY <1>9, <1>10, <2>1, <2>3
<1>12. config.per[1] = S1 /\ (ignored => config.iter[1] = S2 /\ 2 <= L)
  <2>1. Level(1) = 1 /\ 1 % 2 = 1 /\ Level(2) = 1 /\ 2 % 2 = 0 /\ 1 \in Counters /\ 2 \in Counters
    BY DEF Level, Counters
  <2>2. Fits(access)
    BY AccessFits
  <2>3. /\ Times(1) = IF 1 <= Len(n) THEN SizeOf(n[1]) ELSE 0
        /\ Times(2) = IF 2 <= Len(n) THEN SizeOf(n[2]) ELSE 0
    BY <2>1, <2>2, ConfigIs
  <2>4. Times(1) = config.per[1] /\ Times(2) = config.iter[1]
    BY <2>1 DEF Times
  <2>5. QED BY <1>2, <1>9, <2>3, <2>4 DEF SizeAt
<1>13. CASE ~ignored
  BY <1>3, <1>7, <1>8, <1>13 DEF Shown, Due
<1>14. CASE ignored /\ I3 # 0
  <2>1. I1 >= S1 * S2
    <3>1. PICK m \in Nat : I3 = m + 1
      <4>1. I3 - 1 \in Nat /\ I3 = (I3 - 1) + 1
        BY <1>14
      <4>2. QED BY <4>1
    <3>2. S2 * I3 = S2 * m + S2 /\ S2 * m \in Nat
      BY <3>1
    <3>3. PICK r \in Nat : I2 = r + S2
      <4>1. PICK r \in Nat : r = c2 + S2 * m
        BY <3>2
      <4>2. PICK y \in Nat : y = S2 * I3
        OBVIOUS
      <4>3. I2 = c2 + y
        BY <1>11, <4>2
      <4>4. y = S2 * m + S2
        BY <3>2, <4>2
      <4>5. I2 = r + S2
        BY <3>2, <4>1, <4>3, <4>4
      <4>6. QED BY <4>5
    <3>4. S1 * (r + S2) = S1 * r + S1 * S2 /\ S1 * r \in Nat /\ S1 * S2 \in Nat
      OBVIOUS
    <3>5. QED BY <1>11, <3>3, <3>4
  <2>2. Due = Visited
    BY <1>3, <1>11, <1>12, <1>14, <2>1 DEF Due
  <2>3. Shown(n, counter, I, A) = A[1]
    BY <1>11, <1>14 DEF Shown
  <2>4. QED BY <1>3, <1>7, <1>8, <2>2, <2>3
<1>15. CASE ignored /\ I3 = 0
  <2>1. I2 = c2 /\ I1 = c1 + S1 * c2
    BY <1>11, <1>15
  <2>2. PICK m \in Nat : c2 + m + 1 = S2
    <3>1. S2 - c2 - 1 \in Nat
      BY <1>10
    <3>2. QED BY <3>1
  <2>3. S1 * S2 = S1 * c2 + S1 * m + S1 /\ S1 * c2 \in Nat /\ S1 * m \in Nat
    BY <2>2
  <2>4. I1 < S1 * S2
    BY <1>10, <2>1, <2>3
  <2>5. Due = IF I1 < S1 THEN 0 ELSE I1 - S1
    BY <1>3, <1>11, <1>12, <1>15, <2>4 DEF Due
  <2>6. CASE c2 = 0
    <3>1. Due = 0
      BY <1>10, <2>1, <2>5, <2>6
    <3>2. g[1][0] = 0
      BY <1>1, <1>2, <1>5, FirstPoint
    <3>3. QED BY <1>8, <1>10, <1>11, <1>15, <2>6, <3>1, <3>2 DEF Shown
  <2>7. CASE c2 # 0
    <3>1. PICK e \in Nat : c2 = e + 1
      <4>1. c2 - 1 \in Nat /\ c2 = (c2 - 1) + 1
        BY <2>7
      <4>2. QED BY <4>1
    <3>2. S1 * c2 = S1 * e + S1 /\ S1 * e \in Nat
      BY <3>1
    <3>3. Due = c1 + S1 * e
      BY <2>1, <2>5, <3>2
    <3>4. /\ SizeOf(n[1]) = S1 /\ TermOf(n[1]) = T1
          /\ SizeOf(n[2]) = S2 /\ TermOf(n[2]) = T2 /\ 1 \in 1 .. L /\ 2 \in 1 .. L
      BY <1>2, <1>9, <1>12, <1>15 DEF SizeAt, TermAt
    <3>5. g[1][c1 + S1 * e] = T1 * c1 + g[2][e]
      <4>1. g[1][c1 + SizeOf(n[1]) * e] = TermOf(n[1]) * c1 + g[1 + 1][e]
        BY <1>6, <1>10, <3>4 DEF SumUp
      <4>2. QED BY <3>4, <4>1
    <3>6. g[2][e + S2 * 0] = T2 * e + g[3][0]
      <4>1. g[2][e + SizeOf(n[2]) * 0] = TermOf(n[2]) * e + g[2 + 1][0]
        <5>1. e < SizeOf(n[2]) /\ 0 \in Nat
          BY <1>10, <3>1, <3>4
        <5>2. \A x, y \in Nat : x < SizeOf(n[2]) =>
                g[2][x + SizeOf(n[2]) * y] = TermOf(n[2]) * x + g[2 + 1][y]
          BY <1>6, <3>4, Zenon DEF SumUp
        <5>3. PICK z \in Nat : z = 0
          OBVIOUS
        <5>4. g[2][e + SizeOf(n[2]) * z] = TermOf(n[2]) * e + g[2 + 1][z]
          BY <5>1, <5>2, Zenon
        <5>5. QED BY <5>3, <5>4, Zenon
      <4>2. QED BY <3>4, <4>1
    <3>7. g[3][0] = 0
      BY <1>1, <1>2, <1>5, <3>4, FirstPoint
    <3>8. e + S2 * 0 = e /\ c2 - 1 = e /\ T2 * e \in Int
      BY <3>1
    <3>9. g[1][Due] = T1 * c1 + T2 * e
      BY <3>3, <3>5, <3>6, <3>7, <3>8
    <3>10. Shown(n, counter, I, A) = T1 * c1 + T2 * e
      BY <1>9, <1>10, <1>11, <1>15, <2>7, <3>8 DEF Shown
    <3>11. QED BY <1>8, <3>9, <3>10
  <2>8. QED BY <2>6, <2>7
<1>16. QED BY <1>13, <1>14, <1>15

\* The addresses of a run are those of the loop nest the compiler was given, one by
\* one and in order, whatever the nest, the stalls and the delay, and the run is
\* done when every point has been visited (SuperAddress.v:6).
THEOREM EveryNestVisited == AddressSpec => []VisitsTheNest
<1>1. AddressIInv => VisitsTheNest
  <2> SUFFICES ASSUME AddressIInv PROVE VisitsTheNest
    OBVIOUS
  <2>1. doneAddress => Visited = Points(Nest(access))
    BY DEF AddressIInv, Phases
  <2>2. ASSUME valid_o
        PROVE  /\ Visited < Points(Nest(access))
               /\ addr_o = Wrap(access.start + Addresses(Nest(access), Due))
    <3>1. AddressTypeOK /\ Times(1) # 0 /\ ~doneAddress /\ (ignored => Times(2) >= 2)
      BY <2>2 DEF AddressIInv, Phases
    <3>2. PICK n : n = Nest(access)
      OBVIOUS
    <3>3. PICK I, A : Stands(n, I, A)
      BY <3>1, <3>2 DEF AddressIInv
    <3>4. Entered(n) /\ Within(n, counter)
      BY <3>1, <3>2, CountersWithin
    <3>5. Visited < Points(n)
      <4>1. Chain(n, counter, I, A) /\ Visited = I[1]
        BY <3>3 DEF Stands
      <4>2. I[1] < Points(n)
        BY <3>4, <4>1, ChainPoints
      <4>3. QED BY <4>1, <4>2
    <3>6. Shown(n, counter, I, A) = Addresses(n, Due)
      BY <3>1, <3>2, <3>3, ShownIsDue
    <3>7. addr_o = Wrap(access.start + Shown(n, counter, I, A))
      BY <3>3 DEF Stands
    <3>8. QED BY <3>2, <3>5, <3>6, <3>7
  <2>3. QED BY <2>1, <2>2 DEF VisitsTheNest
<1>2. QED BY <1>1, AddressInvariant, PTL

\* Whatever the duty division, each address is stored in the first of its turns and
\* in no other, and none is stored while the first period is ignored.
THEOREM EveryAddressStoredOnce == AddressSpec => []StoredOnce
<1>1. AddressIInv => StoredOnce
  <2> SUFFICES ASSUME AddressIInv, valid_o
               PROVE  store_o <=> /\ Visited % access.dutyDiv = 0
                                  /\ ignored => Visited >= config.per[1]
    BY DEF StoredOnce
  <2>1. AddressTypeOK /\ Times(1) # 0 /\ ~doneAddress
    BY DEF AddressIInv, Phases
  <2>2. PICK n : n = Nest(access)
    OBVIOUS
  <2>3. PICK I, A : Stands(n, I, A)
    BY <2>1, <2>2 DEF AddressIInv
  <2>4. Entered(n) /\ Within(n, counter)
    BY <2>1, <2>2, CountersWithin
  <2>5. PICK s \in Nat, c \in Nat : s = SizeAt(n, 1) /\ c = counter[1] /\ c < s
    BY <2>4, SizesAre DEF Within, Counters
  <2>6. PICK i \in Nat, v \in Nat : i = I[2] /\ v = Visited /\ v = c + s * i
    <3>1. I[1] \in Nat /\ I[2] \in Nat
      BY <2>3 DEF Stands, Chain
    <3>2. 1 \in Counters /\ 1 + 1 = 2
      BY DEF Counters
    <3>3. I[1] = counter[1] + SizeAt(n, 1) * I[2] /\ Visited = I[1]
      BY <2>3, <3>2 DEF Stands, Chain
    <3>4. QED BY <2>5, <3>1, <3>3
  <2>7. Fits(access)
    BY <2>1, AccessFits
  <2>8. config.per[1] = s
    <3>1. Level(1) = 1 /\ 1 % 2 = 1 /\ 1 \in Counters
      BY DEF Level, Counters
    <3>2. Times(1) = SizeOf(n[1]) /\ 1 <= Len(n)
      BY <2>1, <2>2, <2>7, <3>1, ConfigIs
    <3>3. QED BY <2>5, <3>1, <3>2 DEF Times, SizeAt
  <2>9. i = 0 <=> v < s
    <3>1. CASE i = 0
      BY <2>5, <2>6, <3>1
    <3>2. CASE i # 0
      <4>1. PICK m \in Nat : i = m + 1
        <5>1. i - 1 \in Nat /\ i = (i - 1) + 1
          BY <3>2
        <5>2. QED BY <5>1
      <4>2. s * i = s * m + s /\ s * m \in Nat
        BY <4>1
      <4>3. QED BY <2>6, <3>2, <4>2
    <3>3. QED BY <3>1, <3>2
  <2>10. ~ignore <=> (ignored => v >= s)
    <3>1. ignore <=> ignored /\ i = 0
      BY <2>3, <2>6 DEF Stands
    <3>2. i = 0 <=> ~(v >= s)
      BY <2>9
    <3>3. QED BY <3>1, <3>2, Zenon
  <2>11. counter[1] < config.duty <=> v % access.dutyDiv = 0
    <3>1. CASE access.dutyDiv = 1
      <4>1. config.duty = s
        BY <2>2, <2>5, <2>7, <3>1, DutyIs
      <4>2. v % 1 = 0
        OBVIOUS
      <4>3. QED BY <2>5, <3>1, <4>1, <4>2
    <3>2. CASE access.dutyDiv # 1
      <4>1. config.duty = 1 /\ s = access.dutyDiv
        BY <2>2, <2>5, <2>7, <3>2, DutyIs
      <4>2. v % s = c
        BY <2>5, <2>6, Splits
      <4>3. QED BY <2>5, <4>1, <4>2
    <3>3. QED BY <3>1, <3>2
  <2>12. QED BY <2>6, <2>8, <2>10, <2>11 DEF store_o
<1>2. QED BY <1>1, AddressInvariant, PTL
=============================================================================
