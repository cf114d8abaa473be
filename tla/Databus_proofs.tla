--------------------------- MODULE Databus_proofs ----------------------------
(***************************************************************************)
(* The databus keeps its transfers apart, for any number of units, any      *)
(* split into readers and writers, and any counts and lengths.              *)
(***************************************************************************)
EXTENDS Databus, WellFoundedInduction, TLAPS

\* A channel that is granted serves a unit of its kind, which is in a transfer;
\* while it hands over no word, the unit has seen none of the transfer.
ReadGranted ==
  r_running =>
    /\ r_slave \in Readers /\ state[r_slave] = 2
    /\ rleft = 0 => words[r_slave] = 0
WriteGranted ==
  w_running =>
    /\ w_slave \in Writers /\ state[w_slave] = 2
    /\ wleft = 0 => words[w_slave] = 0

\* A unit outside a granted transfer has seen no word of its next one.
OthersWait ==
  \A i \in Slaves :
    words[i] # 0 => (r_running /\ r_slave = i) \/ (w_running /\ w_slave = i)

LengthsSet == \A i \in Slaves : state[i] # 0 => len[i] # 0

IInv == TypeOK /\ ChannelOwned /\ ReadGranted /\ WriteGranted /\ OthersWait /\ LengthsSet

-----------------------------------------------------------------------------
\* The last assignment of the grant loop (MuxNative.v:82-92) is well defined.
LEMMA HighestExists ==
  ASSUME NEW S \in SUBSET Slaves, S # {}
  PROVE  Highest(S) \in S
<1> DEFINE T == {N_SLAVES - i : i \in S}
<1>0. N_SLAVES \in Nat /\ \A i \in S : i \in Int /\ 0 <= i /\ i <= N_SLAVES
  BY SlavesAssumption DEF Slaves
<1>1. T \subseteq Nat
  <2>1. \A i \in S : N_SLAVES - i \in Nat
    BY <1>0
  <2>2. QED BY <2>1
<1>2. T # {}
  <2>1. PICK i \in S : TRUE
    OBVIOUS
  <2>2. N_SLAVES - i \in T
    OBVIOUS
  <2>3. QED BY <2>2
<1>3. PICK x \in T : \A y \in T : ~(<<y, x>> \in OpToRel(<, Nat))
  BY <1>1, <1>2, WFMin, NatLessThanWellFounded
<1>4. \A y \in T : x <= y
  <2>1. SUFFICES ASSUME NEW y \in T, y < x PROVE FALSE
    BY <1>1
  <2>2. x \in Nat /\ y \in Nat
    BY <1>1
  <2> HIDE DEF T
  <2>3. <<y, x>> \in OpToRel(<, Nat)
    BY <2>1, <2>2 DEF OpToRel
  <2>4. QED BY <1>3, <2>3
<1>5. PICK i \in S : x = N_SLAVES - i
  OBVIOUS
<1>6. ASSUME NEW j \in S PROVE j <= i
  <2>1. N_SLAVES - j \in T
    OBVIOUS
  <2>2. N_SLAVES - i <= N_SLAVES - j
    BY <1>4, <1>5, <2>1
  <2>3. QED BY <1>0, <2>2
<1>7. QED BY <1>6 DEF Highest

-----------------------------------------------------------------------------
\* The word of the cycle on each channel, and the unit it goes to.
ReadWord(rgo) == rready(rgo)
WriteWord(valid, wgo) == wready(valid, wgo)

LEMMA Handshakes ==
  ASSUME IInv, NEW hasData \in SUBSET Writers, NEW rgo \in BOOLEAN, NEW wgo \in BOOLEAN,
         NEW i \in Slaves
  PROVE  LET valid == Valid(hasData) IN
         /\ Ready(i, valid, rgo, wgo) <=> \/ ReadWord(rgo) /\ i = r_slave
                                          \/ WriteWord(valid, wgo) /\ i = w_slave
         /\ Advance(i, valid, rgo, wgo) <=> \/ ReadWord(rgo) /\ rleft = 1 /\ i = r_slave
                                            \/ WriteWord(valid, wgo) /\ wleft = 1 /\ i = w_slave
         /\ Ready(i, valid, rgo, wgo) =>
              /\ state[i] = 2
              /\ Last(i, valid, rgo, wgo) <=> Advance(i, valid, rgo, wgo)
              /\ Last(i, valid, rgo, wgo) <=> words[i] + 1 = len[i]
<1> DEFINE valid == Valid(hasData)
<1> USE DEF IInv
<1>1. rleft \in Nat /\ wleft \in Nat /\ words[i] \in Nat /\ len[i] \in Nat
  BY DatabusAssumption DEF TypeOK
<1>2. ReadWord(rgo) => /\ r_running /\ r_slave \in Readers /\ state[r_slave] = 2
                       /\ words[r_slave] + rleft = len[r_slave] /\ rleft > 0
  BY DEF ReadWord, rready, ChannelOwned, ReadGranted
<1>3. WriteWord(valid, wgo) =>
        /\ w_running /\ w_slave \in Writers /\ state[w_slave] = 2 /\ w_slave \in valid
        /\ words[w_slave] + wleft = len[w_slave] /\ wleft > 0
  BY DEF WriteWord, wready, ChannelOwned, WriteGranted, m_wvalid_o
<1>4. Ready(i, valid, rgo, wgo) <=> \/ ReadWord(rgo) /\ i = r_slave
                                    \/ WriteWord(valid, wgo) /\ i = w_slave
  BY <1>2, <1>3 DEF Ready, s_ready_o, ReadWord, WriteWord
<1>5. CASE ReadWord(rgo) /\ i = r_slave
  <2>1. Last(i, valid, rgo, wgo) <=> rleft = 1
    BY <1>1, <1>2, <1>5 DEF Last, s_last_o, rlast, WriteGranted, Readers
  <2>2. i \in valid
    BY <1>2, <1>5 DEF Valid, Readers
  <2>3. ~(WriteWord(valid, wgo) /\ i = w_slave)
    BY <1>2, <1>3, <1>5 DEF Readers
  <2>4. QED BY <1>1, <1>2, <1>4, <1>5, <2>1, <2>2, <2>3 DEF Advance
<1>6. CASE WriteWord(valid, wgo) /\ i = w_slave
  <2>1. ~(r_running /\ r_slave = i)
    BY <1>3, <1>6 DEF ReadGranted, Readers
  <2>2. Last(i, valid, rgo, wgo) <=> wleft = 1
    BY <1>3, <1>6, <2>1 DEF Last, s_last_o, wlast, WriteWord
  <2>3. ~(ReadWord(rgo) /\ i = r_slave)
    BY <1>2, <2>1
  <2>4. QED BY <1>1, <1>3, <1>4, <1>6, <2>2, <2>3 DEF Advance
<1>7. CASE ~Ready(i, valid, rgo, wgo)
  BY <1>4, <1>7 DEF Advance
<1>8. QED BY <1>4, <1>5, <1>6, <1>7

-----------------------------------------------------------------------------
\* What a clock edge does to a unit, in terms of the words handed over.
LEMMA UnitStep ==
  ASSUME IInv, NEW hasData \in SUBSET Writers, NEW rgo \in BOOLEAN, NEW wgo \in BOOLEAN,
         Clock(hasData, rgo, wgo), NEW i \in Slaves
  PROVE  LET valid == Valid(hasData)
             takes == \/ ReadWord(rgo) /\ i = r_slave
                      \/ WriteWord(valid, wgo) /\ i = w_slave
             ends  == \/ ReadWord(rgo) /\ rleft = 1 /\ i = r_slave
                      \/ WriteWord(valid, wgo) /\ wleft = 1 /\ i = w_slave
         IN /\ takes => state[i] = 2 /\ words[i] + 1 <= len[i]
            /\ ends => takes
            /\ state'[i] \in 0 .. 2
            /\ state'[i] # 0 => state[i] # 0
            /\ state[i] = 2 => state'[i] = (IF ends THEN 1 ELSE 2)
            /\ words'[i] = (IF ~takes THEN words[i] ELSE IF ends THEN 0 ELSE words[i] + 1)
            /\ len'[i] = len[i]
<1> DEFINE valid == Valid(hasData)
<1>1. UnitsClock(valid, rgo, wgo)
  BY DEF Clock
<1>2. /\ Ready(i, valid, rgo, wgo) <=> \/ ReadWord(rgo) /\ i = r_slave
                                       \/ WriteWord(valid, wgo) /\ i = w_slave
      /\ Advance(i, valid, rgo, wgo) <=> \/ ReadWord(rgo) /\ rleft = 1 /\ i = r_slave
                                         \/ WriteWord(valid, wgo) /\ wleft = 1 /\ i = w_slave
      /\ Ready(i, valid, rgo, wgo) =>
           /\ state[i] = 2
           /\ Last(i, valid, rgo, wgo) <=> Advance(i, valid, rgo, wgo)
  BY Handshakes
<1>3. state[i] \in 0 .. 2 /\ words[i] \in Nat /\ len[i] \in Nat
  BY DatabusAssumption DEF IInv, TypeOK
<1>4. /\ state'[i] \in 0 .. 2
      /\ state'[i] # 0 => state[i] # 0
      /\ state[i] = 2 => state'[i] = (IF Advance(i, valid, rgo, wgo) THEN 1 ELSE 2)
  BY <1>1, <1>3 DEF UnitsClock
<1>5. /\ words'[i] = (IF ~Ready(i, valid, rgo, wgo) THEN words[i]
                      ELSE IF Last(i, valid, rgo, wgo) THEN 0 ELSE words[i] + 1)
      /\ len'[i] = len[i]
  BY <1>1 DEF UnitsClock
<1>6. Ready(i, valid, rgo, wgo) => words[i] + 1 <= len[i]
  <2>1. /\ ReadWord(rgo) => rleft >= 1 /\ words[r_slave] + rleft = len[r_slave]
        /\ WriteWord(valid, wgo) => wleft >= 1 /\ words[w_slave] + wleft = len[w_slave]
    BY DatabusAssumption DEF IInv, TypeOK, ChannelOwned, ReadWord, rready, WriteWord, wready
  <2>2. rleft \in Nat /\ wleft \in Nat
    BY DatabusAssumption DEF IInv, TypeOK
  <2>3. QED BY <1>2, <1>3, <2>1, <2>2
<1>7. QED BY <1>2, <1>4, <1>5, <1>6

\* What a clock edge does to the read channel.
LEMMA ReadStep ==
  ASSUME IInv, NEW hasData \in SUBSET Writers, NEW rgo \in BOOLEAN, NEW wgo \in BOOLEAN,
         Clock(hasData, rgo, wgo)
  PROVE  /\ r_slave' \in Slaves /\ r_running' \in BOOLEAN /\ rleft' \in 0 .. MaxLen
         /\ r_running /\ ~(ReadWord(rgo) /\ rleft = 1) => r_running' /\ r_slave' = r_slave
         /\ ReadWord(rgo) /\ rleft = 1 => ~r_running' /\ r_slave' = r_slave
         /\ ~r_running /\ r_running' => r_slave' \in Readers /\ state[r_slave'] = 2
         /\ rleft = 0 => rleft' = (IF r_running THEN len[r_slave] ELSE 0)
         /\ rleft # 0 => rleft' = (IF ReadWord(rgo) THEN rleft - 1 ELSE rleft)
<1> DEFINE valid == Valid(hasData)
<1> USE DEF IInv
<1>1. ReadSide(valid, rgo) /\ ReadGrant(valid, valid \ Writers, rready(rgo), rlast)
  BY DEF Clock, MuxClock
<1>2. /\ r_slave \in Slaves /\ r_running \in BOOLEAN /\ rleft \in 0 .. MaxLen
      /\ MaxLen \in Nat /\ len[r_slave] \in 0 .. MaxLen
  BY DatabusAssumption DEF TypeOK, MuxTypeOK
<1>3. m_rvalid_o(valid) <=> r_running
  BY DEF m_rvalid_o, ReadGranted, Valid, Readers
<1>4. /\ rleft = 0 => rleft' = (IF r_running THEN len[r_slave] ELSE 0)
      /\ rleft # 0 => rleft' = (IF ReadWord(rgo) THEN rleft - 1 ELSE rleft)
  BY <1>1, <1>2, <1>3 DEF ReadSide, ReadWord
<1>5. rleft' \in 0 .. MaxLen
  BY <1>2, <1>4 DEF ReadWord, rready
<1>6. CASE r_running
  <2>1. r_running' = ~(rlast /\ rready(rgo)) /\ r_slave' = r_slave
    BY <1>1, <1>3, <1>6 DEF ReadGrant
  <2>2. (rlast /\ rready(rgo)) <=> (ReadWord(rgo) /\ rleft = 1)
    BY <1>2 DEF ReadWord, rready, rlast
  <2>3. QED BY <1>2, <1>4, <1>5, <1>6, <2>1, <2>2
<1>7. CASE ~r_running /\ valid \ Writers # {}
  <2>1. Highest(valid \ Writers) \in valid \ Writers
    BY <1>7, HighestExists DEF Valid
  <2>2. r_running' = TRUE /\ r_slave' = Highest(valid \ Writers)
    BY <1>1, <1>7 DEF ReadGrant
  <2>3. r_slave' \in Readers /\ state[r_slave'] = 2
    BY <2>1, <2>2 DEF Valid, Readers
  <2>4. ~ReadWord(rgo)
    BY <1>7 DEF ReadWord, rready, ChannelOwned
  <2>5. QED BY <1>4, <1>5, <1>7, <2>2, <2>3, <2>4 DEF Readers
<1>8. CASE ~r_running /\ valid \ Writers = {}
  <2>1. r_running' = r_running /\ r_slave' = r_slave
    BY <1>1, <1>8 DEF ReadGrant
  <2>2. ~ReadWord(rgo)
    BY <1>8 DEF ReadWord, rready, ChannelOwned
  <2>3. QED BY <1>2, <1>4, <1>5, <1>8, <2>1, <2>2
<1>9. QED BY <1>2, <1>6, <1>7, <1>8

\* What a clock edge does to the write channel.
LEMMA WriteStep ==
  ASSUME IInv, NEW hasData \in SUBSET Writers, NEW rgo \in BOOLEAN, NEW wgo \in BOOLEAN,
         Clock(hasData, rgo, wgo)
  PROVE  LET takes == WriteWord(Valid(hasData), wgo) IN
         /\ w_slave' \in Slaves /\ w_running' \in BOOLEAN /\ wleft' \in 0 .. MaxLen
         /\ w_running /\ ~(takes /\ wleft = 1) => w_running' /\ w_slave' = w_slave
         /\ takes /\ wleft = 1 => ~w_running' /\ w_slave' = w_slave
         /\ ~w_running /\ w_running' => w_slave' \in Writers /\ state[w_slave'] = 2
         /\ wleft = 0 => wleft' = 0 \/ (w_running /\ wleft' = len[w_slave])
         /\ wleft # 0 => wleft' = (IF takes THEN wleft - 1 ELSE wleft)
<1> DEFINE valid == Valid(hasData)
<1> USE DEF IInv
<1>1. /\ WriteSide(valid, wgo)
      /\ WriteGrant(valid, valid \cap Writers, wready(valid, wgo), wlast(valid, wgo))
  BY DEF Clock, MuxClock
<1>2. /\ w_slave \in Slaves /\ w_running \in BOOLEAN /\ wleft \in 0 .. MaxLen
      /\ MaxLen \in Nat /\ len[w_slave] \in 0 .. MaxLen
  BY DatabusAssumption DEF TypeOK, MuxTypeOK
<1>3. /\ WriteWord(valid, wgo) => wleft # 0 /\ m_wvalid_o(valid)
      /\ m_wvalid_o(valid) => w_running
      /\ wlast(valid, wgo) <=> WriteWord(valid, wgo) /\ wleft = 1
  BY <1>2 DEF WriteWord, wready, wlast, m_wvalid_o
<1>4. /\ wleft = 0 => wleft' = 0 \/ (w_running /\ wleft' = len[w_slave])
      /\ wleft # 0 => wleft' = (IF WriteWord(valid, wgo) THEN wleft - 1 ELSE wleft)
  BY <1>1, <1>2, <1>3 DEF WriteSide, WriteWord
<1>5. wleft' \in 0 .. MaxLen
  BY <1>2, <1>4
<1>6. CASE w_running
  <2>1. /\ w_running' = ~(wlast(valid, wgo) /\ wready(valid, wgo) /\ m_wvalid_o(valid))
        /\ w_slave' = w_slave
    BY <1>1, <1>6 DEF WriteGrant
  <2>2. w_running' = ~(WriteWord(valid, wgo) /\ wleft = 1)
    BY <1>3, <2>1 DEF WriteWord
  <2>3. QED BY <1>2, <1>4, <1>5, <1>6, <2>1, <2>2
<1>7. CASE ~w_running /\ valid \cap Writers # {}
  <2>1. Highest(valid \cap Writers) \in valid \cap Writers
    BY <1>7, HighestExists DEF Valid
  <2>2. w_running' = TRUE /\ w_slave' = Highest(valid \cap Writers)
    BY <1>1, <1>7 DEF WriteGrant
  <2>3. w_slave' \in Writers /\ w_slave' \in Slaves /\ state[w_slave'] = 2
    BY <2>1, <2>2 DEF Valid
  <2>4. QED BY <1>3, <1>4, <1>5, <1>7, <2>2, <2>3
<1>8. CASE ~w_running /\ valid \cap Writers = {}
  <2>1. w_running' = w_running /\ w_slave' = w_slave
    BY <1>1, <1>8 DEF WriteGrant
  <2>2. QED BY <1>2, <1>3, <1>4, <1>5, <1>8, <2>1
<1>9. QED BY <1>2, <1>6, <1>7, <1>8

-----------------------------------------------------------------------------
LEMMA ClockKeepsInv ==
  ASSUME IInv, NEW hasData \in SUBSET Writers, NEW rgo \in BOOLEAN, NEW wgo \in BOOLEAN,
         Clock(hasData, rgo, wgo)
  PROVE  IInv'
<1> DEFINE valid == Valid(hasData)
           takes(i) == \/ ReadWord(rgo) /\ i = r_slave
                       \/ WriteWord(valid, wgo) /\ i = w_slave
           ends(i)  == \/ ReadWord(rgo) /\ rleft = 1 /\ i = r_slave
                       \/ WriteWord(valid, wgo) /\ wleft = 1 /\ i = w_slave
<1>1. \A i \in Slaves :
        /\ takes(i) => state[i] = 2 /\ words[i] + 1 <= len[i]
        /\ state'[i] \in 0 .. 2
        /\ state'[i] # 0 => state[i] # 0
        /\ state[i] = 2 => state'[i] = (IF ends(i) THEN 1 ELSE 2)
        /\ words'[i] = (IF ~takes(i) THEN words[i] ELSE IF ends(i) THEN 0 ELSE words[i] + 1)
        /\ len'[i] = len[i]
  BY UnitStep
<1>2. /\ r_slave' \in Slaves /\ r_running' \in BOOLEAN /\ rleft' \in 0 .. MaxLen
      /\ r_running /\ ~(ReadWord(rgo) /\ rleft = 1) => r_running' /\ r_slave' = r_slave
      /\ ReadWord(rgo) /\ rleft = 1 => ~r_running' /\ r_slave' = r_slave
      /\ ~r_running /\ r_running' => r_slave' \in Readers /\ state[r_slave'] = 2
      /\ rleft = 0 => rleft' = (IF r_running THEN len[r_slave] ELSE 0)
      /\ rleft # 0 => rleft' = (IF ReadWord(rgo) THEN rleft - 1 ELSE rleft)
  BY ReadStep
<1>3. /\ w_slave' \in Slaves /\ w_running' \in BOOLEAN /\ wleft' \in 0 .. MaxLen
      /\ w_running /\ ~(WriteWord(valid, wgo) /\ wleft = 1) => w_running' /\ w_slave' = w_slave
      /\ WriteWord(valid, wgo) /\ wleft = 1 => ~w_running' /\ w_slave' = w_slave
      /\ ~w_running /\ w_running' => w_slave' \in Writers /\ state[w_slave'] = 2
      /\ wleft = 0 => wleft' = 0 \/ (w_running /\ wleft' = len[w_slave])
      /\ wleft # 0 => wleft' = (IF WriteWord(valid, wgo) THEN wleft - 1 ELSE wleft)
  BY WriteStep
<1>4. /\ rleft \in 0 .. MaxLen /\ wleft \in 0 .. MaxLen /\ MaxLen \in Nat
      /\ r_slave \in Slaves /\ w_slave \in Slaves /\ Writers \subseteq Slaves
      /\ \A i \in Slaves : words[i] \in 0 .. MaxLen /\ len[i] \in 0 .. MaxLen /\ state[i] \in 0 .. 2
  BY DatabusAssumption DEF IInv, TypeOK, MuxTypeOK
<1>5. /\ ReadWord(rgo) => r_running /\ rleft # 0
      /\ WriteWord(valid, wgo) => w_running /\ wleft # 0
  BY <1>4 DEF ReadWord, rready, WriteWord, wready, m_wvalid_o, IInv, ChannelOwned
<1>6. /\ r_running => /\ r_slave \in Readers /\ state[r_slave] = 2
                      /\ rleft = 0 => words[r_slave] = 0
      /\ w_running => /\ w_slave \in Writers /\ state[w_slave] = 2
                      /\ wleft = 0 => words[w_slave] = 0
  BY DEF IInv, ReadGranted, WriteGranted
<1>7. /\ rleft # 0 => r_running /\ words[r_slave] + rleft = len[r_slave]
      /\ wleft # 0 => w_running /\ words[w_slave] + wleft = len[w_slave]
  BY <1>4 DEF IInv, ChannelOwned
<1>8. \A i \in Slaves :
        /\ words[i] # 0 => (r_running /\ r_slave = i) \/ (w_running /\ w_slave = i)
        /\ state[i] # 0 => len[i] # 0
  BY DEF IInv, OthersWait, LengthsSet
<1> HIDE DEF valid
<1>9. TypeOK'
  <2>1. MuxTypeOK'
    BY <1>2, <1>3 DEF MuxTypeOK
  <2>2. /\ DOMAIN state' = Slaves /\ DOMAIN words' = Slaves /\ DOMAIN count' = Slaves
        /\ state' = [i \in Slaves |-> state'[i]] /\ words' = [i \in Slaves |-> words'[i]]
        /\ count' \in [Slaves -> 0 .. MaxCount] /\ count_is_zero' \in [Slaves -> BOOLEAN]
        /\ len' = len
    BY DatabusAssumption DEF Clock, UnitsClock, IInv, TypeOK
  <2>3. \A i \in Slaves : words'[i] \in 0 .. MaxLen
    BY <1>1, <1>4
  <2>4. state' \in [Slaves -> 0 .. 2] /\ words' \in [Slaves -> 0 .. MaxLen]
    BY <1>1, <2>2, <2>3
  <2>5. QED BY <1>2, <1>3, <2>1, <2>2, <2>4 DEF IInv, TypeOK
<1>10. ChannelOwned'
  <2>1. rleft' > 0 => r_running' /\ words'[r_slave'] + rleft' = len'[r_slave']
    <3>1. CASE rleft = 0
      <4>1. rleft' > 0 => r_running /\ r_running' /\ r_slave' = r_slave /\ rleft' = len[r_slave]
        BY <1>2, <1>4, <1>5, <3>1
      <4>2. r_running => words'[r_slave] = 0
        BY <1>1, <1>4, <1>5, <1>6, <3>1 DEF Readers
      <4>3. QED BY <1>1, <1>4, <4>1, <4>2
    <3>2. CASE rleft # 0 /\ ReadWord(rgo)
      <4>1. rleft' = rleft - 1 /\ r_slave' = r_slave
        BY <1>2, <1>5, <3>2
      <4>2. rleft # 1 => r_running' /\ words'[r_slave] = words[r_slave] + 1
        BY <1>1, <1>2, <1>4, <1>5, <1>6, <3>2 DEF Readers
      <4>3. QED BY <1>1, <1>4, <1>7, <3>2, <4>1, <4>2
    <3>3. CASE rleft # 0 /\ ~ReadWord(rgo)
      <4>1. rleft' = rleft /\ r_slave' = r_slave /\ r_running'
        BY <1>2, <1>7, <3>3
      <4>2. words'[r_slave] = words[r_slave]
        BY <1>1, <1>4, <1>5, <1>6, <1>7, <3>3 DEF Readers
      <4>3. QED BY <1>1, <1>4, <1>7, <3>3, <4>1, <4>2
    <3>4. QED BY <3>1, <3>2, <3>3
  <2>2. wleft' > 0 => w_running' /\ words'[w_slave'] + wleft' = len'[w_slave']
    <3>1. CASE wleft = 0
      <4>1. wleft' > 0 => w_running /\ w_running' /\ w_slave' = w_slave /\ wleft' = len[w_slave]
        BY <1>3, <1>4, <1>5, <3>1
      <4>2. w_running => words'[w_slave] = 0
        BY <1>1, <1>4, <1>5, <1>6, <3>1 DEF Readers
      <4>3. QED BY <1>1, <1>4, <4>1, <4>2
    <3>2. CASE wleft # 0 /\ WriteWord(valid, wgo)
      <4>1. wleft' = wleft - 1 /\ w_slave' = w_slave
        BY <1>3, <1>5, <3>2
      <4>2. wleft # 1 => w_running' /\ words'[w_slave] = words[w_slave] + 1
        BY <1>1, <1>3, <1>4, <1>5, <1>6, <3>2 DEF Readers
      <4>3. QED BY <1>1, <1>4, <1>7, <3>2, <4>1, <4>2
    <3>3. CASE wleft # 0 /\ ~WriteWord(valid, wgo)
      <4>1. wleft' = wleft /\ w_slave' = w_slave /\ w_running'
        BY <1>3, <1>7, <3>3
      <4>2. words'[w_slave] = words[w_slave]
        BY <1>1, <1>4, <1>5, <1>6, <1>7, <3>3 DEF Readers
      <4>3. QED BY <1>1, <1>4, <1>7, <3>3, <4>1, <4>2
    <3>4. QED BY <3>1, <3>2, <3>3
  <2>3. QED BY <2>1, <2>2 DEF ChannelOwned
<1>11. ReadGranted'
  <2>1. CASE r_running /\ r_running'
    <3>1. r_slave' = r_slave /\ ~(ReadWord(rgo) /\ rleft = 1)
      BY <1>2, <2>1
    <3>2. state'[r_slave] = 2
      BY <1>1, <1>4, <1>5, <1>6, <2>1, <3>1 DEF Readers
    <3>3. rleft' = 0 => rleft = 0 /\ len[r_slave] = 0
      BY <1>2, <1>4, <2>1, <3>1
    <3>4. QED BY <1>4, <1>6, <1>8, <2>1, <3>1, <3>2, <3>3 DEF ReadGranted
  <2>2. CASE ~r_running /\ r_running'
    <3>1. r_slave' \in Readers /\ r_slave' \in Slaves /\ state[r_slave'] = 2
      BY <1>2, <2>2
    <3>2. ~takes(r_slave') /\ ~ends(r_slave')
      BY <1>5, <1>6, <2>2, <3>1 DEF Readers
    <3>3. words[r_slave'] = 0
      BY <1>6, <1>8, <2>2, <3>1 DEF Readers
    <3>4. state'[r_slave'] = 2 /\ words'[r_slave'] = 0
      BY <1>1, <3>1, <3>2, <3>3
    <3>5. QED BY <3>1, <3>4 DEF ReadGranted
  <2>3. QED BY <1>2, <2>1, <2>2 DEF ReadGranted
<1>12. WriteGranted'
  <2>1. CASE w_running /\ w_running'
    <3>1. w_slave' = w_slave /\ ~(WriteWord(valid, wgo) /\ wleft = 1)
      BY <1>3, <2>1
    <3>2. state'[w_slave] = 2
      BY <1>1, <1>4, <1>5, <1>6, <2>1, <3>1 DEF Readers
    <3>3. wleft' = 0 => wleft = 0
      BY <1>3, <1>4, <2>1, <3>1
    <3>4. wleft = 0 => words'[w_slave] = 0
      BY <1>1, <1>4, <1>5, <1>6, <2>1 DEF Readers
    <3>5. QED BY <1>6, <2>1, <3>1, <3>2, <3>3, <3>4 DEF WriteGranted
  <2>2. CASE ~w_running /\ w_running'
    <3>1. w_slave' \in Writers /\ w_slave' \in Slaves /\ state[w_slave'] = 2
      BY <1>3, <2>2
    <3>2. ~takes(w_slave') /\ ~ends(w_slave')
      BY <1>5, <1>6, <2>2, <3>1 DEF Readers
    <3>3. words[w_slave'] = 0
      BY <1>6, <1>8, <2>2, <3>1 DEF Readers
    <3>4. state'[w_slave'] = 2 /\ words'[w_slave'] = 0
      BY <1>1, <3>1, <3>2, <3>3
    <3>5. QED BY <3>1, <3>4 DEF WriteGranted
  <2>3. QED BY <1>3, <2>1, <2>2 DEF WriteGranted
<1>13. OthersWait'
  <2>1. SUFFICES ASSUME NEW i \in Slaves, words'[i] # 0
                 PROVE  (r_running' /\ r_slave' = i) \/ (w_running' /\ w_slave' = i)
    BY DEF OthersWait
  <2>2. ~ends(i)
    BY <1>1, <2>1
  <2>3. (r_running /\ r_slave = i) \/ (w_running /\ w_slave = i)
    BY <1>1, <1>5, <1>8, <2>1
  <2>4. QED BY <1>2, <1>3, <2>2, <2>3
<1>14. LengthsSet'
  BY <1>1, <1>8 DEF LengthsSet
<1>15. QED BY <1>9, <1>10, <1>11, <1>12, <1>13, <1>14 DEF IInv

\* Done units leave the databus at rest, so a run starts from rest.
LEMMA AtRest ==
  ASSUME IInv, \A i \in Slaves : doneDatabus(i)
  PROVE  /\ ~r_running /\ ~w_running /\ rleft = 0 /\ wleft = 0
         /\ \A i \in Slaves : words[i] = 0
<1>1. ~r_running /\ ~w_running
  BY DatabusAssumption DEF IInv, ReadGranted, WriteGranted, doneDatabus, Readers
<1>2. rleft = 0 /\ wleft = 0
  BY <1>1, DatabusAssumption DEF IInv, TypeOK, ChannelOwned
<1>3. QED BY <1>1, <1>2 DEF IInv, OthersWait

LEMMA RunKeepsInv ==
  ASSUME IInv, NEW counts \in [Slaves -> 0 .. MaxCount], NEW lens \in [Slaves -> 0 .. MaxLen],
         Run(counts, lens)
  PROVE  IInv'
<1>1. /\ ~r_running /\ ~w_running /\ rleft = 0 /\ wleft = 0
      /\ \A i \in Slaves : words[i] = 0
  BY AtRest DEF Run
<1>2. /\ state' = [i \in Slaves |-> IF counts[i] # 0 /\ lens[i] # 0 THEN 1 ELSE 0]
      /\ count' = counts
      /\ count_is_zero' = [i \in Slaves |-> counts[i] = 0]
      /\ len' = lens /\ words' = words
  BY DEF Run
<1>3. /\ rleft' = 0 /\ wleft' = 0
      /\ r_running' = r_running /\ r_slave' = r_slave
      /\ w_running' = w_running /\ w_slave' = w_slave
  BY <1>1 DEF Run, ReadSide, WriteSide, MuxClock, ReadGrant, WriteGrant, m_rvalid_o, m_wvalid_o
<1>4. TypeOK'
  BY <1>2, <1>3, DatabusAssumption DEF IInv, TypeOK, MuxTypeOK
<1>5. ChannelOwned' /\ ReadGranted' /\ WriteGranted'
  BY <1>1, <1>3 DEF ChannelOwned, ReadGranted, WriteGranted
<1>6. OthersWait' /\ LengthsSet'
  BY <1>1, <1>2 DEF OthersWait, LengthsSet
<1>7. QED BY <1>4, <1>5, <1>6 DEF IInv

LEMMA Start == Init => IInv
<1> SUFFICES ASSUME Init PROVE IInv
  OBVIOUS
<1>1. TypeOK
  <2>1. 0 \in Slaves /\ 0 \in 0 .. MaxCount /\ 0 \in 0 .. MaxLen
    BY SlavesAssumption, DatabusAssumption DEF Slaves
  <2>2. MuxTypeOK
    BY <2>1 DEF Init, MuxInit, MuxTypeOK
  <2>3. QED BY <2>1, <2>2 DEF Init, TypeOK
<1>2. ChannelOwned /\ ReadGranted /\ WriteGranted /\ OthersWait /\ LengthsSet
  BY DEF Init, MuxInit, ChannelOwned, ReadGranted, WriteGranted, OthersWait, LengthsSet
<1>3. QED BY <1>1, <1>2 DEF IInv

LEMMA Inductive == IInv /\ [Next]_vars => IInv'
<1> SUFFICES ASSUME IInv, [Next]_vars PROVE IInv'
  OBVIOUS
<1>1. CASE \E hasData \in SUBSET Writers, rgo, wgo \in BOOLEAN : Clock(hasData, rgo, wgo)
  BY <1>1, ClockKeepsInv
<1>2. CASE \E counts \in [Slaves -> 0 .. MaxCount], lens \in [Slaves -> 0 .. MaxLen] :
             Run(counts, lens)
  BY <1>2, RunKeepsInv
<1>3. CASE UNCHANGED vars
  BY <1>3 DEF vars, unitVars, muxVars, IInv, TypeOK, MuxTypeOK, ChannelOwned, ReadGranted,
              WriteGranted, OthersWait, LengthsSet
<1>4. QED BY <1>1, <1>2, <1>3 DEF Next

LEMMA Invariance == Spec => []IInv
<1>1. Init => IInv BY Start
<1>2. IInv /\ [Next]_vars => IInv' BY Inductive
<1>3. QED BY <1>1, <1>2, PTL DEF Spec

-----------------------------------------------------------------------------
\* A channel that hands over words belongs to the unit whose transfer it is
\* (MuxNative.v:98-124).
THEOREM ChannelsOwned == Spec => [](TypeOK /\ ChannelOwned)
<1>1. IInv => TypeOK /\ ChannelOwned BY DEF IInv
<1>2. QED BY <1>1, Invariance, PTL

\* databus_last comes with the last word of the unit's own transfer, and only
\* then, however the units' requests overlap.
THEOREM LastIsLast == Spec => []LastEndsTransfer
<1>1. IInv => LastEndsTransfer
  BY Handshakes DEF LastEndsTransfer
<1>2. QED BY <1>1, Invariance, PTL

\* When every unit is done, no transfer of the run is left on the databus.
THEOREM DoneIsQuiet == Spec => []DoneMeansQuiet
<1>1. IInv => DoneMeansQuiet
  BY AtRest DEF DoneMeansQuiet
<1>2. QED BY <1>1, Invariance, PTL
=============================================================================
