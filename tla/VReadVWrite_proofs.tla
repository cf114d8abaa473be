------------------------- MODULE VReadVWrite_proofs --------------------------
(***************************************************************************)
(* First the MemoryReader: it never overflows its FIFO, never mixes up its  *)
(* reads and is a queue of six words, whatever the addresses and the        *)
(* contents of the memory.  Then the VRead that drives a VWrite: whatever   *)
(* the sizes of the memories and the tiles, the number of transfers and the *)
(* stalls, the words that are sent are those that were fetched.             *)
(***************************************************************************)
EXTENDS VReadVWrite, SequenceTheorems, TLAPS

-----------------------------------------------------------------------------
(* The reader.                                                              *)

IInv == TypeOK /\ NoOverflow /\ MemoryAligned

\* The FIFO has eight slots.
LEMMA SlotIs == Slots = 8 /\ Slot = 0 .. 7
BY DEF Slots, Slot, ADDR_W

LEMMA DistanceIs ==
  ASSUME NEW r \in 0 .. 7, NEW w \in 0 .. 7
  PROVE  ((8 + w - r) % 16) % 8 = IF w >= r THEN w - r ELSE w - r + 8
OBVIOUS

\* The level is the distance from the read to the write pointer.
LEMMA LevelIs ==
  ASSUME read \in 0 .. 7, write \in 0 .. 7
  PROVE  fifoLevel = IF write >= read THEN write - read ELSE write - read + 8
<1>1. fifoLevel = ((8 + write - read) % 16) % 8
  BY SlotIs DEF fifoLevel, level_o, high_occupancy
<1>2. QED BY <1>1, DistanceIs

\* The same after a step.
LEMMA NextLevelIs ==
  ASSUME read' \in 0 .. 7, write' \in 0 .. 7
  PROVE  fifoLevel' = IF write' >= read' THEN write' - read' ELSE write' - read' + 8
<1>1. fifoLevel' = ((8 + write' - read') % 16) % 8
  BY SlotIs DEF fifoLevel, level_o, high_occupancy, Slots, ADDR_W
<1>2. QED BY <1>1, DistanceIs

LEMMA Start == Init => IInv
<1> SUFFICES ASSUME Init PROVE IInv
  OBVIOUS
<1> USE SlotIs
<1>1. TypeOK
  <2>1. [addr |-> None, data |-> None] \in AnyEntry
    BY DEF AnyEntry
  <2>2. mem \in [Slot -> AnyEntry]
    BY <2>1 DEF Init
  <2>3. wasReset \in BOOLEAN
    BY DEF Init
  <2>4. QED BY <2>2, <2>3 DEF Init, TypeOK
<1>2. NoOverflow
  BY LevelIs DEF Init, NoOverflow, InFlight
<1>3. MemoryAligned
  BY DEF Init, MemoryAligned
<1>4. QED BY <1>1, <1>2, <1>3 DEF IInv

-----------------------------------------------------------------------------
\* What every edge does to the memory and to the ports.
LEMMA MemoryAndPorts ==
  ASSUME IInv, NEW s_addr \in Addr \cup {None}, NEW m_ready \in BOOLEAN,
         MemoryClock(s_addr), Ports(s_addr, m_ready) \/ ResetPorts(s_addr)
  PROVE  /\ r_data' \in {Contents[a] : a \in Addr} \cup {None}
         /\ mem_data_i' \in {Contents[a] : a \in Addr} \cup {None}
         /\ accepted' \in Responses \cup {None}
         /\ delivered' \in AnyEntry \cup {None}
         /\ wasReset' \in BOOLEAN
<1> USE SlotIs DEF IInv, TypeOK
<1>1. r_data' \in {Contents[a] : a \in Addr} \cup {None}
  BY DEF MemoryClock
<1>2. mem_data_i' \in {Contents[a] : a \in Addr} \cup {None}
  BY DEF MemoryClock
<1>3. accepted' \in Responses \cup {None}
  BY DEF Ports, ResetPorts, Loaded, Responses
<1>4. delivered' \in AnyEntry \cup {None}
  BY DEF Ports, ResetPorts
<1>5. wasReset' \in BOOLEAN
  BY DEF Ports, ResetPorts
<1>6. QED BY <1>1, <1>2, <1>3, <1>4, <1>5

LEMMA ClockKeepsType ==
  ASSUME IInv, NEW s_addr \in Addr \cup {None}, NEW m_ready \in BOOLEAN,
         Clock(s_addr, m_ready) \/ ForceReset(s_addr)
  PROVE  TypeOK'
<1> USE SlotIs DEF IInv
<1>1. MemoryClock(s_addr) /\ (Ports(s_addr, m_ready) \/ ResetPorts(s_addr))
  BY DEF Clock, ForceReset
<1>2. CASE Clock(s_addr, m_ready)
  <2>1. [addr |-> mem_en_delayed_2, data |-> mem_data_i] \in AnyEntry
    BY DEF TypeOK, AnyEntry
  <2>2. mem' \in [0 .. 7 -> AnyEntry]
    BY <1>2, <2>1 DEF Clock, FifoClock, TypeOK
  <2>3. read' \in 0 .. 7 /\ write' \in 0 .. 7
    BY <1>2 DEF Clock, FifoClock, TypeOK
  <2>4. mem_en_delayed' \in Addr \cup {None} /\ mem_en_delayed_2' \in Addr \cup {None}
    BY <1>2 DEF Clock, Loaded, TypeOK
  <2>5. QED BY <1>1, <2>2, <2>3, <2>4, MemoryAndPorts DEF TypeOK
<1>3. CASE ForceReset(s_addr)
  <2>1. /\ mem' = mem /\ read' = 0 /\ write' = 0
        /\ mem_en_delayed' = None /\ mem_en_delayed_2' = None
    BY <1>3 DEF ForceReset, FifoReset
  <2>2. QED BY <1>1, <2>1, MemoryAndPorts DEF TypeOK
<1>4. QED BY <1>2, <1>3

\* An address is accepted below level 4 only, so what is held and in flight
\* grows to at most 6; every other edge moves reads from the flight into the
\* FIFO or takes words out of it.
LEMMA ClockKeepsRoom ==
  ASSUME IInv, NEW s_addr \in Addr \cup {None}, NEW m_ready \in BOOLEAN,
         Clock(s_addr, m_ready) \/ ForceReset(s_addr)
  PROVE  NoOverflow'
<1>1. TypeOK'
  BY ClockKeepsType
<1>2. /\ read \in 0 .. 7 /\ write \in 0 .. 7
      /\ read' \in 0 .. 7 /\ write' \in 0 .. 7
  BY <1>1, SlotIs DEF IInv, TypeOK
<1>3. fifoLevel' = IF write' >= read' THEN write' - read' ELSE write' - read' + 8
  BY <1>2, NextLevelIs
<1>4. fifoLevel \in 0 .. 7
  BY <1>2, LevelIs
<1>5. CASE Clock(s_addr, m_ready)
  <2> DEFINE in  == IF mem_en_delayed_2 # None THEN 1 ELSE 0
             out == IF m_valid_o /\ m_ready THEN 1 ELSE 0
             ask == IF Loaded(s_addr) # None THEN 1 ELSE 0
             one == IF mem_en_delayed # None THEN 1 ELSE 0
  <2>1. write' = (write + in) % 8 /\ read' = (read + out) % 8
    BY <1>2, <1>5, SlotIs DEF Clock, FifoClock
  <2>2. fifoLevel + in <= 6 /\ out <= fifoLevel
    BY <1>4 DEF IInv, NoOverflow, InFlight, m_valid_o
  <2>3. fifoLevel' = fifoLevel + in - out
    BY <1>2, <1>3, <2>1, <2>2, LevelIs
  <2>4. InFlight = in + one /\ InFlight' = ask + one
    BY <1>5 DEF Clock, InFlight
  <2>5. ask = 1 => fifoLevel <= 3
    BY <1>4 DEF Loaded, s_ready_o, Threshold
  <2>6. fifoLevel + in + one <= 6
    BY <1>4, <2>4 DEF IInv, NoOverflow
  <2>7. QED BY <1>4, <2>2, <2>3, <2>4, <2>5, <2>6 DEF NoOverflow
<1>6. CASE ForceReset(s_addr)
  <2>1. fifoLevel' = 0
    BY <1>3, <1>6 DEF ForceReset, FifoReset
  <2>2. InFlight' = 0
    BY <1>6 DEF ForceReset, InFlight
  <2>3. QED BY <2>1, <2>2 DEF NoOverflow
<1>7. QED BY <1>5, <1>6

LEMMA ClockKeepsAligned ==
  ASSUME IInv, NEW s_addr \in Addr \cup {None}, NEW m_ready \in BOOLEAN,
         Clock(s_addr, m_ready) \/ ForceReset(s_addr)
  PROVE  MemoryAligned'
<1>1. CASE Clock(s_addr, m_ready)
  BY <1>1 DEF Clock, MemoryClock, MemoryAligned, Loaded, IInv
<1>2. CASE ForceReset(s_addr)
  BY <1>2 DEF ForceReset, MemoryAligned
<1>3. QED BY <1>1, <1>2

LEMMA Inductive == IInv /\ [Next]_vars => IInv'
<1> SUFFICES ASSUME IInv, [Next]_vars PROVE IInv'
  OBVIOUS
<1>1. CASE Next
  BY <1>1, ClockKeepsType, ClockKeepsRoom, ClockKeepsAligned DEF Next, IInv
<1>2. CASE UNCHANGED vars
  <2>1. TypeOK'
    BY <1>2 DEF vars, IInv, TypeOK
  <2>2. fifoLevel' = fifoLevel /\ InFlight' = InFlight
    BY <1>2 DEF vars, fifoLevel, InFlight, level_o, high_occupancy
  <2>3. QED BY <1>2, <2>1, <2>2 DEF vars, IInv, NoOverflow, MemoryAligned
<1>3. QED BY <1>1, <1>2

\* The accept threshold keeps the FIFO from overflowing (MemoryReader.v:87).
THEOREM NeverOverflows == Spec => []NoOverflow
<1>1. Init => IInv BY Start
<1>2. IInv /\ [Next]_vars => IInv' BY Inductive
<1>3. IInv => NoOverflow BY DEF IInv
<1>4. QED BY <1>1, <1>2, <1>3, PTL DEF Spec

\* The word that arrives belongs to the address that was delayed beside it
\* (MemoryReader.v:92-115).
THEOREM ReadsStayAligned == Spec => [](TypeOK /\ MemoryAligned)
<1>1. Init => IInv BY Start
<1>2. IInv /\ [Next]_vars => IInv' BY Inductive
<1>3. IInv => TypeOK /\ MemoryAligned BY DEF IInv
<1>4. QED BY <1>1, <1>2, <1>3, PTL DEF Spec

-----------------------------------------------------------------------------
(* The reader implements a queue of six words.                              *)

\* n words of a memory of eight slots, from slot r on.
Ring(m, r, n) == [i \in 1 .. n |-> m[(r + i - 1) % 8]]

\* What the FIFO holds, oldest first, and every word it may hold.
Buffered == Ring(mem, read, fifoLevel)

Entries == AnyEntry \cup Responses

LEMMA WordFacts ==
  ASSUME NEW a \in Addr \cup {None}
  PROVE  /\ Word(a) \in Seq(Entries)
         /\ Len(Word(a)) = IF a = None THEN 0 ELSE 1
         /\ a # None => Word(a)[1] = Response(a) /\ Response(a) \in Responses
                           /\ Response(a) # None
<1>1. CASE a = None
  BY <1>1 DEF Word
<1>2. CASE a # None
  <2>1. Word(a) = <<Response(a)>> /\ Response(a) \in Responses
    BY <1>2 DEF Word, Responses
  <2>2. Response(a) # None
    BY <1>2, ReaderAssumption DEF Response
  <2>3. Response(a) \in Entries
    BY <2>1 DEF Entries
  <2>4. QED BY <1>2, <2>1, <2>2, <2>3
<1>3. QED BY <1>1, <1>2

\* The slots of a ring are slots of the memory.
LEMMA PlaceIs ==
  ASSUME NEW r \in 0 .. 7, NEW i \in 1 .. 8
  PROVE  /\ (r + i - 1) % 8 \in 0 .. 7
         /\ (r + i - 1) % 8 = IF r + i - 1 >= 8 THEN r + i - 9 ELSE r + i - 1
OBVIOUS

IsRing(q, S, m, r, n) ==
  /\ q \in Seq(S) /\ Len(q) = n
  /\ \A i \in 1 .. n : q[i] = m[(r + i - 1) % 8]

LEMMA RingIs ==
  ASSUME NEW S, NEW m \in [0 .. 7 -> S], NEW r \in 0 .. 7, NEW n \in 0 .. 8
  PROVE  IsRing(Ring(m, r, n), S, m, r, n)
<1>1. \A i \in 1 .. n : m[(r + i - 1) % 8] \in S
  BY PlaceIs
<1>2. QED BY <1>1 DEF Ring, IsRing

\* Reading the oldest word moves the ring one slot on.
LEMMA RingTake ==
  ASSUME NEW S, NEW m \in [0 .. 7 -> S], NEW r \in 0 .. 7, NEW n \in 1 .. 8
  PROVE  /\ Tail(Ring(m, r, n)) = Ring(m, (r + 1) % 8, n - 1)
         /\ Head(Ring(m, r, n)) = m[r]
<1> DEFINE q  == Ring(m, r, n)
           r1 == (r + 1) % 8
<1>0. n \in 0 .. 8 /\ r1 \in 0 .. 7 /\ n - 1 \in 0 .. 8
  OBVIOUS
<1>1. /\ q \in Seq(S) /\ Len(q) = n
      /\ \A i \in 1 .. n : q[i] = m[(r + i - 1) % 8]
  <2>1. IsRing(q, S, m, r, n) BY <1>0, RingIs
  <2>2. QED BY <2>1 DEF IsRing
<1>3. /\ Ring(m, r1, n - 1) \in Seq(S) /\ Len(Ring(m, r1, n - 1)) = n - 1
      /\ \A i \in 1 .. n - 1 : Ring(m, r1, n - 1)[i] = m[(r1 + i - 1) % 8]
  <2>1. IsRing(Ring(m, r1, n - 1), S, m, r1, n - 1) BY <1>0, RingIs
  <2>2. QED BY <2>1 DEF IsRing
<1>4. q # <<>> /\ Head(q) = q[1]
  BY <1>1
<1>5. /\ Tail(q) \in Seq(S) /\ Len(Tail(q)) = n - 1
      /\ \A i \in 1 .. n - 1 : Tail(q)[i] = q[i + 1]
  BY <1>1, <1>4, HeadTailProperties
<1>6. ASSUME NEW i \in 1 .. n - 1
      PROVE  Tail(q)[i] = Ring(m, r1, n - 1)[i]
  <2>1. i + 1 \in 1 .. n /\ (r1 + i - 1) % 8 = (r + (i + 1) - 1) % 8
    BY <1>0
  <2>2. q[i + 1] = m[(r + (i + 1) - 1) % 8]
    BY <1>1, <2>1
  <2>3. Tail(q)[i] = q[i + 1]
    BY <1>5
  <2>4. Ring(m, r1, n - 1)[i] = m[(r1 + i - 1) % 8]
    BY <1>3
  <2>5. QED BY <2>1, <2>2, <2>3, <2>4
<1>8. Tail(q) = Ring(m, r1, n - 1)
  BY <1>3, <1>5, <1>6, SeqEqual
<1>9. Head(q) = m[r]
  <2>1. 1 \in 1 .. n /\ (r + 1 - 1) % 8 = r
    BY <1>0
  <2>2. QED BY <1>1, <1>4, <2>1
<1>10. QED BY <1>8, <1>9

\* Writing the slot after the last word of a ring that is not full appends.
PutAtEnd(m, r, n, e) ==
  Ring([m EXCEPT ![(r + n) % 8] = e], r, n + 1) = Ring(m, r, n) \o <<e>>

LEMMA RingPut ==
  ASSUME NEW S, NEW m \in [0 .. 7 -> S], NEW r \in 0 .. 7, NEW n \in 0 .. 7, NEW e \in S
  PROVE  PutAtEnd(m, r, n, e)
<1> DEFINE m1 == [m EXCEPT ![(r + n) % 8] = e]
           p  == Ring(m, r, n)
           q  == Ring(m1, r, n + 1)
<1>1. m1 \in [0 .. 7 -> S] /\ (r + n) % 8 \in 0 .. 7 /\ n \in 0 .. 8 /\ n + 1 \in 0 .. 8
  OBVIOUS
<1> HIDE DEF m1
<1>2. /\ q \in Seq(S) /\ Len(q) = n + 1
      /\ \A i \in 1 .. n + 1 : q[i] = m1[(r + i - 1) % 8]
  <2>1. IsRing(q, S, m1, r, n + 1) BY <1>1, RingIs
  <2>2. QED BY <2>1 DEF IsRing
<1>3. /\ p \in Seq(S) /\ Len(p) = n
      /\ \A i \in 1 .. n : p[i] = m[(r + i - 1) % 8]
  <2>1. IsRing(p, S, m, r, n) BY <1>1, RingIs
  <2>2. QED BY <2>1 DEF IsRing
<1> HIDE DEF p, q
<1>4. /\ p \o <<e>> \in Seq(S) /\ Len(p \o <<e>>) = n + 1
      /\ \A i \in 1 .. n + 1 : (p \o <<e>>)[i] = IF i <= n THEN p[i] ELSE e
  BY <1>3
<1>5. ASSUME NEW i \in 1 .. n
      PROVE  (r + i - 1) % 8 \in 0 .. 7 /\ (r + i - 1) % 8 # (r + n) % 8
  BY PlaceIs
<1>6. ASSUME NEW i \in 1 .. n
      PROVE  q[i] = p[i]
  <2>1. i \in 1 .. n + 1
    OBVIOUS
  <2>2. q[i] = m1[(r + i - 1) % 8]
    BY <1>2, <2>1
  <2>3. m1[(r + i - 1) % 8] = m[(r + i - 1) % 8]
    BY <1>5 DEF m1
  <2>4. QED BY <1>3, <2>2, <2>3
<1>7. q[n + 1] = e
  BY <1>1, <1>2 DEF m1
<1>8. \A i \in 1 .. n + 1 : q[i] = (p \o <<e>>)[i]
  BY <1>4, <1>6, <1>7
<1>9. q = p \o <<e>>
  BY <1>2, <1>4, <1>8, SeqEqual
<1>10. QED BY <1>9 DEF m1, p, q, PutAtEnd

\* What is buffered.
LEMMA BufferedFacts ==
  ASSUME TypeOK
  PROVE  /\ read \in 0 .. 7 /\ write \in 0 .. 7 /\ mem \in [0 .. 7 -> AnyEntry]
         /\ mem \in [0 .. 7 -> Entries]
         /\ fifoLevel \in 0 .. 7
         /\ write = (read + fifoLevel) % 8
         /\ Buffered \in Seq(Entries)
         /\ Len(Buffered) = fifoLevel
<1>1. read \in 0 .. 7 /\ write \in 0 .. 7 /\ mem \in [0 .. 7 -> AnyEntry]
  BY SlotIs DEF TypeOK
<1>2. fifoLevel \in 0 .. 7 /\ write = (read + fifoLevel) % 8
  BY <1>1, LevelIs
<1>3. mem \in [0 .. 7 -> Entries]
  BY <1>1 DEF Entries
<1>4. fifoLevel \in 0 .. 8
  BY <1>2
<1>5. Buffered \in Seq(Entries) /\ Len(Buffered) = fifoLevel
  <2>1. IsRing(Buffered, Entries, mem, read, fifoLevel)
    BY <1>1, <1>3, <1>4, RingIs DEF Buffered
  <2>2. QED BY <2>1 DEF IsRing
<1>6. QED BY <1>1, <1>2, <1>3, <1>5

\* Taking the first word of a sequence with something behind it.
LEMMA TailOfConcat ==
  ASSUME NEW S, NEW s \in Seq(S), NEW t \in Seq(S), s # <<>>
  PROVE  /\ Tail(s \o t) = Tail(s) \o t
         /\ Head(s \o t) = Head(s)
         /\ s \o t # <<>>
<1>1. /\ s \o t \in Seq(S) /\ Len(s \o t) = Len(s) + Len(t)
      /\ \A i \in 1 .. Len(s) + Len(t) : (s \o t)[i] = IF i <= Len(s) THEN s[i] ELSE t[i - Len(s)]
  BY ConcatProperties
<1>2. Len(s) \in Nat \ {0} /\ Len(t) \in Nat
  BY EmptySeq, LenProperties
<1>3. s \o t # <<>>
  BY <1>1, <1>2
<1>4. /\ Tail(s) \in Seq(S) /\ Len(Tail(s)) = Len(s) - 1
      /\ \A i \in 1 .. Len(s) - 1 : Tail(s)[i] = s[i + 1]
  BY HeadTailProperties
<1>5. /\ Tail(s \o t) \in Seq(S) /\ Len(Tail(s \o t)) = Len(s) + Len(t) - 1
      /\ \A i \in 1 .. Len(s) + Len(t) - 1 : Tail(s \o t)[i] = (s \o t)[i + 1]
  BY <1>1, <1>3, HeadTailProperties
<1>6. /\ Tail(s) \o t \in Seq(S) /\ Len(Tail(s) \o t) = Len(s) - 1 + Len(t)
      /\ \A i \in 1 .. Len(s) - 1 + Len(t) :
           (Tail(s) \o t)[i] = IF i <= Len(s) - 1 THEN Tail(s)[i] ELSE t[i - (Len(s) - 1)]
  BY <1>4, ConcatProperties
<1>7. \A i \in 1 .. Len(s) + Len(t) - 1 : Tail(s \o t)[i] = (Tail(s) \o t)[i]
  BY <1>1, <1>2, <1>4, <1>5, <1>6
<1>8. Tail(s \o t) = Tail(s) \o t
  BY <1>2, <1>5, <1>6, <1>7, SeqEqual
<1>9. Head(s \o t) = Head(s)
  BY <1>1, <1>2, <1>3
<1>10. QED BY <1>3, <1>8, <1>9

\* An edge takes a word out of the FIFO or not, and puts the older read in it.
LEMMA FifoStep ==
  ASSUME IInv, TypeOK', NEW s_addr \in Addr \cup {None}, NEW m_ready \in BOOLEAN,
         Clock(s_addr, m_ready)
  PROVE  Buffered' = (IF m_valid_o /\ m_ready THEN Tail(Buffered) ELSE Buffered)
                       \o Word(mem_en_delayed_2)
<1> DEFINE take == m_valid_o /\ m_ready
           w_en == mem_en_delayed_2 # None
           out  == IF take THEN 1 ELSE 0
           in   == IF w_en THEN 1 ELSE 0
           left == fifoLevel - out
           e    == [addr |-> mem_en_delayed_2, data |-> mem_data_i]
<1>1. /\ read \in 0 .. 7 /\ write \in 0 .. 7 /\ mem \in [0 .. 7 -> Entries]
      /\ fifoLevel \in 0 .. 7 /\ write = (read + fifoLevel) % 8
      /\ Buffered \in Seq(Entries)
  BY BufferedFacts DEF IInv
<1>2. fifoLevel + in <= 6 /\ out <= fifoLevel
  BY <1>1 DEF IInv, NoOverflow, InFlight, m_valid_o
<1>3. /\ mem' = IF w_en THEN [mem EXCEPT ![write] = e] ELSE mem
      /\ write' = (write + in) % 8 /\ read' = (read + out) % 8
  <2>1. read \in 0 .. 7 /\ write \in 0 .. 7
    BY <1>1
  <2>2. QED BY <2>1, SlotIs DEF Clock, FifoClock
<1>4. fifoLevel' = left + in
  <2>1. read' \in 0 .. 7 /\ write' \in 0 .. 7
    BY <1>1, <1>3
  <2>2. fifoLevel' = IF write' >= read' THEN write' - read' ELSE write' - read' + 8
    BY <2>1, NextLevelIs
  <2>3. fifoLevel = IF write >= read THEN write - read ELSE write - read + 8
    BY <1>1, LevelIs
  <2>4. QED BY <1>1, <1>2, <1>3, <2>2, <2>3
<1>5. (IF take THEN Tail(Buffered) ELSE Buffered) = Ring(mem, read', left)
  <2>1. CASE take
    <3>1. fifoLevel \in 1 .. 8 /\ left = fifoLevel - 1 /\ read' = (read + 1) % 8
      BY <1>1, <1>2, <1>3, <2>1
    <3>2. QED BY <1>1, <2>1, <3>1, RingTake DEF Buffered
  <2>2. CASE ~take
    BY <1>1, <1>3, <2>2 DEF Buffered
  <2>3. QED BY <2>1, <2>2
<1>6. /\ read' \in 0 .. 7 /\ left \in 0 .. 7 /\ left \in 0 .. 8
      /\ write = (read' + left) % 8
  BY <1>1, <1>2, <1>3
<1>7. CASE w_en
  <2>1. e = Response(mem_en_delayed_2) /\ Word(mem_en_delayed_2) = <<e>>
    BY <1>7 DEF IInv, MemoryAligned, Response, Word
  <2>2. e \in Entries
    BY <1>7, <2>1 DEF IInv, TypeOK, Entries, Responses
  <2>3. mem' = [mem EXCEPT ![(read' + left) % 8] = e] /\ fifoLevel' = left + 1
    BY <1>3, <1>4, <1>6, <1>7
  <2> HIDE DEF e, left, take
  <2>4. Ring([mem EXCEPT ![(read' + left) % 8] = e], read', left + 1)
          = Ring(mem, read', left) \o <<e>>
    <3>1. left \in 0 .. 7 /\ read' \in 0 .. 7 /\ mem \in [0 .. 7 -> Entries]
      BY <1>1, <1>6
    <3>2. PutAtEnd(mem, read', left, e)
      BY <2>2, <3>1, RingPut
    <3>3. QED BY <3>2 DEF PutAtEnd
  <2>5. QED BY <1>5, <2>1, <2>3, <2>4 DEF Buffered, take
<1>8. CASE ~w_en
  <2>1. Word(mem_en_delayed_2) = <<>> /\ mem' = mem /\ fifoLevel' = left
    BY <1>3, <1>4, <1>6, <1>8 DEF Word
  <2>2. Ring(mem, read', left) \in Seq(Entries)
    <3>1. IsRing(Ring(mem, read', left), Entries, mem, read', left)
      BY <1>1, <1>6, RingIs
    <3>2. QED BY <3>1 DEF IsRing
  <2>3. QED BY <1>5, <2>1, <2>2, ConcatEmptySeq DEF Buffered
<1>9. QED BY <1>7, <1>8

\* The queue is what is buffered, then the older read, then the newer one.
LEMMA HeldFacts ==
  ASSUME IInv
  PROVE  /\ Held = (Buffered \o Word(mem_en_delayed_2)) \o Word(mem_en_delayed)
         /\ Buffered \o Word(mem_en_delayed_2) \in Seq(Entries)
         /\ Held \in Seq(Entries)
         /\ Len(Held) = fifoLevel + InFlight
<1>1. Held = (Buffered \o Word(mem_en_delayed_2)) \o Word(mem_en_delayed)
  BY SlotIs DEF Held, Buffered, Ring
<1>2. /\ Buffered \in Seq(Entries) /\ Len(Buffered) = fifoLevel /\ fifoLevel \in 0 .. 7
      /\ mem_en_delayed \in Addr \cup {None} /\ mem_en_delayed_2 \in Addr \cup {None}
  BY BufferedFacts DEF IInv, TypeOK
<1>3. /\ Word(mem_en_delayed) \in Seq(Entries) /\ Word(mem_en_delayed_2) \in Seq(Entries)
      /\ Len(Word(mem_en_delayed)) + Len(Word(mem_en_delayed_2)) = InFlight
      /\ Len(Word(mem_en_delayed)) \in Nat /\ Len(Word(mem_en_delayed_2)) \in Nat
  <2>1. /\ Word(mem_en_delayed) \in Seq(Entries)
        /\ Len(Word(mem_en_delayed)) = IF mem_en_delayed = None THEN 0 ELSE 1
    BY <1>2, WordFacts
  <2>2. /\ Word(mem_en_delayed_2) \in Seq(Entries)
        /\ Len(Word(mem_en_delayed_2)) = IF mem_en_delayed_2 = None THEN 0 ELSE 1
    BY <1>2, WordFacts
  <2>3. QED BY <2>1, <2>2 DEF InFlight
<1>4. /\ Buffered \o Word(mem_en_delayed_2) \in Seq(Entries)
      /\ Len(Buffered \o Word(mem_en_delayed_2)) = fifoLevel + Len(Word(mem_en_delayed_2))
  BY <1>2, <1>3, ConcatProperties
<1>5. Held \in Seq(Entries) /\ Len(Held) = fifoLevel + InFlight
  <2>1. /\ Held \in Seq(Entries)
        /\ Len(Held) = Len(Buffered \o Word(mem_en_delayed_2)) + Len(Word(mem_en_delayed))
    BY <1>1, <1>3, <1>4, ConcatProperties
  <2>2. QED BY <1>2, <1>3, <1>4, <2>1
<1>6. QED BY <1>1, <1>4, <1>5

\* The length of the queue, and that of the one after a step.
LEMMA HeldLength == IInv => Held \in Seq(Entries) /\ Len(Held) = fifoLevel + InFlight
BY HeldFacts

\* The word shown to the consumer is the oldest of the queue.
LEMMA OldestIsShown ==
  ASSUME IInv, m_valid_o
  PROVE  /\ Held # <<>> /\ Head(Held) = mem[read]
         /\ Tail(Held) = (Tail(Buffered) \o Word(mem_en_delayed_2)) \o Word(mem_en_delayed)
<1>1. /\ Buffered \in Seq(Entries) /\ Len(Buffered) = fifoLevel /\ fifoLevel \in 1 .. 8
      /\ mem \in [0 .. 7 -> Entries] /\ read \in 0 .. 7
      /\ mem_en_delayed \in Addr \cup {None} /\ mem_en_delayed_2 \in Addr \cup {None}
  BY BufferedFacts DEF IInv, TypeOK, m_valid_o
<1>2. Buffered # <<>> /\ Head(Buffered) = mem[read]
  <2>1. Head(Buffered) = mem[read]
    BY <1>1, RingTake DEF Buffered
  <2>2. QED BY <1>1, <2>1
<1>3. Word(mem_en_delayed) \in Seq(Entries) /\ Word(mem_en_delayed_2) \in Seq(Entries)
  BY <1>1, WordFacts
<1> DEFINE older == Buffered \o Word(mem_en_delayed_2)
<1>4. /\ older \in Seq(Entries) /\ older # <<>> /\ Head(older) = mem[read]
      /\ Tail(older) = Tail(Buffered) \o Word(mem_en_delayed_2)
  BY <1>1, <1>2, <1>3, TailOfConcat, ConcatProperties
<1>5. Held = older \o Word(mem_en_delayed)
  BY HeldFacts
<1> HIDE DEF older
<1>6. Tail(older \o Word(mem_en_delayed)) = Tail(older) \o Word(mem_en_delayed)
  BY <1>3, <1>4, TailOfConcat
<1>7. /\ older \o Word(mem_en_delayed) # <<>>
      /\ Head(older \o Word(mem_en_delayed)) = Head(older)
  BY <1>3, <1>4, TailOfConcat
<1>8. QED BY <1>4, <1>5, <1>6, <1>7

LEMMA InitRefines == Init => Stream!FifoInit
<1> SUFFICES ASSUME Init PROVE Stream!FifoInit
  OBVIOUS
<1>1. IInv
  BY Start
<1>2. fifoLevel = 0 /\ InFlight = 0
  BY LevelIs DEF Init, InFlight
<1>3. Held \in Seq(Entries) /\ Len(Held) = 0
  BY <1>1, <1>2, HeldFacts
<1>4. Held = <<>>
  BY <1>3
<1>5. QED BY <1>4 DEF Init, Stream!FifoInit

\* An edge takes a word out of the queue or not, and puts the one accepted in it.
LEMMA HeldStep ==
  ASSUME IInv, TypeOK', NEW s_addr \in Addr \cup {None}, NEW m_ready \in BOOLEAN,
         Clock(s_addr, m_ready)
  PROVE  Held' = (IF m_valid_o /\ m_ready THEN Tail(Held) ELSE Held) \o Word(Loaded(s_addr))
<1> DEFINE take == m_valid_o /\ m_ready
<1>1. Buffered' = (IF take THEN Tail(Buffered) ELSE Buffered) \o Word(mem_en_delayed_2)
  BY FifoStep
<1>2. mem_en_delayed_2' = mem_en_delayed /\ mem_en_delayed' = Loaded(s_addr)
  BY DEF Clock
<1>3. Held' = (Buffered' \o Word(mem_en_delayed)) \o Word(Loaded(s_addr))
  <2>1. Held' = (Buffered' \o Word(mem_en_delayed_2')) \o Word(mem_en_delayed')
    BY SlotIs DEF Held, Buffered, Ring, Slots, ADDR_W, Word, Response
  <2>2. QED BY <1>2, <2>1
<1>4. (IF take THEN Tail(Held) ELSE Held)
        = ((IF take THEN Tail(Buffered) ELSE Buffered) \o Word(mem_en_delayed_2))
             \o Word(mem_en_delayed)
  BY HeldFacts, OldestIsShown
<1>5. QED BY <1>1, <1>3, <1>4

\* An edge without a reset is a cycle of the queue ...
LEMMA ClockRefines ==
  ASSUME IInv, IInv', NEW s_addr \in Addr \cup {None}, NEW m_ready \in BOOLEAN,
         Clock(s_addr, m_ready)
  PROVE  Stream!FifoNext
<1> DEFINE take == m_valid_o /\ m_ready
<1>1. Held' = (IF take THEN Tail(Held) ELSE Held) \o Word(Loaded(s_addr))
  BY HeldStep DEF IInv
<1>2. Word(Loaded(s_addr)) = Stream!Word(accepted') /\ accepted' \in Responses \cup {None}
  <2>1. accepted' = IF Loaded(s_addr) # None THEN Response(Loaded(s_addr)) ELSE None
    BY DEF Clock, Ports, Loaded
  <2>2. Loaded(s_addr) \in Addr \cup {None}
    BY DEF Loaded
  <2>3. CASE Loaded(s_addr) = None
    BY <2>1, <2>3 DEF Word, Stream!Word
  <2>4. CASE Loaded(s_addr) # None
    BY <2>1, <2>2, <2>4, WordFacts DEF Word, Stream!Word
  <2>5. QED BY <2>3, <2>4
<1>3. Held' = Stream!Remaining(take) \o Stream!Word(accepted')
  BY <1>1, <1>2 DEF Stream!Remaining
<1>4. Len(Held') <= 6
  <2>1. (Held \in Seq(Entries) /\ Len(Held) = fifoLevel + InFlight)'
    BY HeldLength, PTL
  <2>2. QED BY <2>1 DEF IInv, NoOverflow
<1>5. take => Held # <<>> /\ Head(Held) = mem[read]
  BY OldestIsShown
<1>6. delivered' = IF take THEN Head(Held) ELSE None
  BY <1>5 DEF Clock, Ports
<1>7. wasReset' = FALSE
  BY DEF Clock, Ports
<1>8. Stream!Cycle(take)
  BY <1>3, <1>4, <1>5, <1>6, <1>7 DEF Stream!Cycle
<1>9. take \in BOOLEAN
  BY DEF m_valid_o
<1>10. QED BY <1>2, <1>7, <1>8, <1>9 DEF Stream!FifoNext

\* A reset leaves nothing, whatever is buffered or in flight ...
LEMMA ResetEmpties ==
  ASSUME IInv', NEW s_addr \in Addr \cup {None}, ForceReset(s_addr)
  PROVE  Held' = <<>>
<1>1. fifoLevel' = 0 /\ InFlight' = 0
  <2>1. read' = 0 /\ write' = 0 /\ mem_en_delayed' = None /\ mem_en_delayed_2' = None
    BY DEF ForceReset, FifoReset
  <2>2. QED BY <2>1, NextLevelIs DEF InFlight
<1>2. (Held \in Seq(Entries) /\ Len(Held) = fifoLevel + InFlight)'
  BY HeldLength, PTL
<1>3. QED BY <1>1, <1>2

\* ... so an edge with a reset is a flush of the queue.
LEMMA ResetRefines ==
  ASSUME IInv, IInv', NEW s_addr \in Addr \cup {None}, ForceReset(s_addr)
  PROVE  Stream!FifoNext
<1>1. Held' = <<>>
  BY ResetEmpties
<1>2. delivered' = None /\ accepted' \in Responses \cup {None} /\ wasReset' = TRUE
  BY DEF ForceReset, ResetPorts, Responses
<1>3. QED BY <1>1, <1>2 DEF Stream!FifoNext, Stream!Flush

LEMMA StepRefines == IInv /\ IInv' /\ [Next]_vars => [Stream!FifoNext]_(Stream!fifoVars)
<1> SUFFICES ASSUME IInv, IInv', [Next]_vars
             PROVE  [Stream!FifoNext]_(Stream!fifoVars)
  OBVIOUS
<1>1. CASE Next
  BY <1>1, ClockRefines, ResetRefines DEF Next
<1>2. CASE UNCHANGED vars
  BY <1>2 DEF vars, Stream!fifoVars, Held, fifoLevel, level_o, high_occupancy
<1>3. QED BY <1>1, <1>2

\* Every address the reader takes comes out as one word, in order and with the
\* memory's contents, through stalls, and only a reset drops words (MemoryReader.v:81-135).
THEOREM ReaderIsQueue == Spec => ImplementsStream
<1>1. Init => Stream!FifoInit BY InitRefines
<1>2. Init => IInv BY Start
<1>3. IInv /\ [Next]_vars => IInv' BY Inductive
<1>4. IInv /\ IInv' /\ [Next]_vars => [Stream!FifoNext]_(Stream!fifoVars) BY StepRefines
<1>5. QED BY <1>1, <1>2, <1>3, <1>4, PTL DEF Spec, ImplementsStream, Stream!FifoSpec

-----------------------------------------------------------------------------
(* A VRead that drives a VWrite.  In every run the databus half of a unit,  *)
(* the generator of memory places beside it and the words in between agree  *)
(* on how many words of the transfers were seen; what the two stages after  *)
(* the fetch read lies still in the other half of each memory.              *)

units == INSTANCE Databus_proofs
  WITH N_SLAVES <- 2, Writers <- {VWrite}, MaxCount <- HalfWords, MaxLen <- HalfWords

Fetches == asked[1].fetch
Sends   == asked[3].send

\* What the databus half of a unit has left of its transfers.
Transfers(i, t) ==
  /\ len[i] = t[2] /\ count[i] <= t[1]
  /\ state[i] # 0 => (count_is_zero[i] <=> count[i] = 0)
  /\ state[i] = 2 => count[i] # 0
  /\ state[i] = 0 => count[i] = 0 \/ t[2] = 0

BusInv == units!IInv /\ Transfers(VRead, Fetches) /\ Transfers(VWrite, Sends)

UnitsTypeOK ==
  /\ {running, r_pingPong, r_gen_valid, w_pingPong, w_gen_valid, store_value_0, store_value_1}
       \subseteq BOOLEAN
  /\ run_tag \in 0 .. Tags - 1
  /\ \A s \in 1 .. 3 : IsTile(asked[s])
  /\ {r_gen_addr, w_gen_addr} \subseteq 0 .. HalfWords - 1
  /\ {r_ram, w_ram} \subseteq [Place -> TileWord \cup {None}]
  /\ {r_ram_reg, r_ram_out, out0} \subseteq TileWord \cup {None}
  /\ {r_turn, w_turn} \subseteq Nat /\ w_delay \in 0 .. Latency
  /\ first_state \in {"EMPTY", "DATA", "EXTRA"} /\ second_state \in {"EMPTY", "DATA"}
  /\ {first_data, first_extra} \subseteq Place \cup {None}
  /\ second_data \in TileWord \cup {None}

\* Word i of the tile that was fetched in a run, and the runs before this one.
FetchedIn(tag, i) == [run |-> tag, index |-> i]
Before     == (run_tag + Tags - 1) % Tags
BeforeThat == (run_tag + Tags - 2) % Tags

\* A place of half h, the generator's x-th.
PlaceOf(h, x) == <<h, x % HalfWords>>

Fetched == Seen(VRead, Fetches)
Sent    == Seen(VWrite, Sends)

\* Words that left the join, and places that wait in it.
Stored == IF second_state = "DATA" THEN Fetched - 1 ELSE Fetched
Places == CASE first_state = "EMPTY" -> 0 [] first_state = "DATA" -> 1 [] OTHER -> 2

\* The fetch: the join holds the next places and at most the last word.
FetchInv ==
  /\ second_state = "DATA" =>
       /\ state[VRead] # 0 /\ first_state # "EMPTY" /\ Fetched > 0
       /\ second_data = FetchedIn(run_tag, Fetched - 1)
  /\ state[VRead] # 0 => running /\ r_gen_valid
  /\ state[VRead] = 2 => first_state # "EMPTY"
  /\ running /\ first_state # "EMPTY" => first_data = PlaceOf(~r_pingPong, Stored)
  /\ running /\ first_state = "EXTRA" => first_extra = PlaceOf(~r_pingPong, Stored + 1)
  /\ running /\ r_gen_valid => r_gen_addr = (Stored + Places) % HalfWords
  /\ \A i \in 0 .. Stored - 1 : r_ram[<<~r_pingPong, i>>] = FetchedIn(run_tag, i)

\* The computation: a word is three registers behind its place.
Elapsed == Latency - w_delay + w_turn

ComputeInv ==
  LET n == asked[2].words IN
  /\ w_turn <= n /\ (w_delay > 0 => w_turn = 0)
  /\ r_turn = IF Elapsed < n THEN Elapsed ELSE n
  /\ \A i \in 0 .. n - 1 : r_ram[<<r_pingPong, i>>] = FetchedIn(Before, i)
  /\ Elapsed \in 1 .. n => store_value_0 /\ r_ram_reg = FetchedIn(Before, Elapsed - 1)
  /\ Elapsed - 1 \in 1 .. n => store_value_1 /\ r_ram_out = FetchedIn(Before, Elapsed - 2)
  /\ Elapsed - 2 \in 1 .. n => out0 = FetchedIn(Before, Elapsed - 3)
  /\ \A i \in 0 .. w_turn - 1 : w_ram[<<w_pingPong, i>>] = FetchedIn(Before, i)

\* The sending: the reader holds the next places with what they hold.
SentAt(x) == [place |-> PlaceOf(~w_pingPong, x), word |-> w_ram[PlaceOf(~w_pingPong, x)]]

SendInv ==
  /\ \A i \in 0 .. asked[3].words - 1 : w_ram[<<~w_pingPong, i>>] = FetchedIn(BeforeThat, i)
  /\ running => \A j \in 1 .. Len(Held) : Held[j] = Response(SentAt(Sent + j - 1))
  /\ running /\ w_gen_valid => w_gen_addr = (Sent + Len(Held)) % HalfWords

StreamIInv ==
  /\ BusInv /\ UnitsTypeOK /\ IInv /\ FetchInv /\ ComputeInv /\ SendInv
  /\ ~running => done

-----------------------------------------------------------------------------
LEMMA Remainder ==
  ASSUME NEW h \in Nat \ {0}, NEW q \in Nat, NEW r \in 0 .. h - 1
  PROVE  (h * q + r) % h = r
OBVIOUS

LEMMA Quotient ==
  ASSUME NEW h \in Nat \ {0}, NEW x \in Nat
  PROVE  h * (x \div h) <= x /\ x < h * (x \div h) + h
OBVIOUS

\* What the generators count with.
LEMMA Wrap ==
  ASSUME NEW h \in Nat \ {0}, NEW x \in Nat
  PROVE  /\ x % h \in 0 .. h - 1
         /\ x < h => x % h = x
         /\ ((x % h) + 1) % h = (x + 1) % h
<1>1. x % h \in 0 .. h - 1
  OBVIOUS
<1>2. x < h => x % h = x
  OBVIOUS
<1>3. ((x % h) + 1) % h = (x + 1) % h
  <2>1. PICK q \in Nat : q = x \div h
    OBVIOUS
  <2>2. PICK m \in Nat : m = h * q
    <3>1. h * q \in Nat
      OBVIOUS
    <3>2. QED BY <3>1
  <2>3. m <= x /\ x < m + h
    BY <2>1, <2>2, Quotient
  <2>4. PICK r \in 0 .. h - 1 : x = m + r
    <3>1. x - m \in 0 .. h - 1 /\ x = m + (x - m)
      BY <2>3
    <3>2. QED BY <3>1
  <2>5. x % h = r
    BY <2>2, <2>4, Remainder
  <2>6. CASE r + 1 < h
    <3>1. r + 1 \in 0 .. h - 1 /\ x + 1 = h * q + (r + 1)
      BY <2>2, <2>4, <2>6
    <3>2. (x + 1) % h = r + 1
      BY <3>1, Remainder
    <3>3. (r + 1) % h = r + 1
      BY <3>1
    <3>4. QED BY <2>5, <3>2, <3>3
  <2>7. CASE r + 1 = h
    <3>1. x + 1 = h * (q + 1) + 0
      BY <2>2, <2>4, <2>7
    <3>2. 0 \in 0 .. h - 1 /\ q + 1 \in Nat
      OBVIOUS
    <3>3. (x + 1) % h = 0
      BY <3>1, <3>2, Remainder
    <3>4. h % h = 0
      <4>1. h = h * 1 + 0
        OBVIOUS
      <4>2. (h * 1 + 0) % h = 0
        BY <3>2, Remainder
      <4>3. QED BY <4>1, <4>2
    <3>5. QED BY <2>5, <2>7, <3>3, <3>4
  <2>8. QED BY <2>6, <2>7
<1>4. QED BY <1>1, <1>2, <1>3

LEMMA SameUnits ==
  /\ units!Slaves = 0 .. 1 /\ Bus!Slaves = 0 .. 1
  /\ \A h, r, w : Bus!Clock(h, r, w) <=> units!Clock(h, r, w)
  /\ \A c, l : Bus!Run(c, l) <=> units!Run(c, l)
  /\ \A i, h, r, w : Bus!Ready(i, Bus!Valid(h), r, w) <=> units!Ready(i, units!Valid(h), r, w)
  /\ Bus!Init <=> units!Init
<1>1. units!Slaves = 0 .. 1 /\ Bus!Slaves = 0 .. 1
  BY DEF units!Slaves, Bus!Slaves
<1>2. \A h, r, w : Bus!Clock(h, r, w) <=> units!Clock(h, r, w)
  BY DEF Bus!Clock, units!Clock, Bus!Valid, units!Valid, Bus!UnitsClock, units!UnitsClock,
         Bus!ReadSide, units!ReadSide, Bus!WriteSide, units!WriteSide, Bus!MuxClock, units!MuxClock,
         Bus!ReadGrant, units!ReadGrant, Bus!WriteGrant, units!WriteGrant, Bus!Advance, units!Advance,
         Bus!Ready, units!Ready, Bus!Last, units!Last, Bus!s_ready_o, units!s_ready_o,
         Bus!s_last_o, units!s_last_o, Bus!rready, units!rready, Bus!rlast, units!rlast,
         Bus!wready, units!wready, Bus!wlast, units!wlast, Bus!m_rvalid_o, units!m_rvalid_o,
         Bus!m_wvalid_o, units!m_wvalid_o, Bus!Highest, units!Highest, Bus!Slaves, units!Slaves
<1>3. \A c, l : Bus!Run(c, l) <=> units!Run(c, l)
  BY DEF Bus!Run, units!Run, Bus!doneDatabus, units!doneDatabus,
         Bus!ReadSide, units!ReadSide, Bus!WriteSide, units!WriteSide, Bus!MuxClock, units!MuxClock,
         Bus!ReadGrant, units!ReadGrant, Bus!WriteGrant, units!WriteGrant,
         Bus!rready, units!rready, Bus!rlast, units!rlast,
         Bus!wready, units!wready, Bus!wlast, units!wlast, Bus!m_rvalid_o, units!m_rvalid_o,
         Bus!m_wvalid_o, units!m_wvalid_o, Bus!Highest, units!Highest, Bus!Slaves, units!Slaves
<1>4. \A i, h, r, w : Bus!Ready(i, Bus!Valid(h), r, w) <=> units!Ready(i, units!Valid(h), r, w)
  BY DEF Bus!Valid, units!Valid, Bus!Ready, units!Ready, Bus!s_ready_o, units!s_ready_o,
         Bus!rready, units!rready, Bus!wready, units!wready,
         Bus!m_wvalid_o, units!m_wvalid_o, Bus!Slaves, units!Slaves
<1>5. Bus!Init <=> units!Init
  BY DEF Bus!Init, units!Init, Bus!MuxInit, units!MuxInit, Bus!Slaves, units!Slaves
<1>6. QED BY <1>1, <1>2, <1>3, <1>4, <1>5

\* A unit's place in its transfers.
LEMMA SeenFacts ==
  ASSUME units!IInv, NEW i \in 0 .. 1, NEW t, t[1] \in Nat, t[2] \in Nat, Transfers(i, t)
  PROVE  /\ state[i] \in 0 .. 2 /\ words[i] \in Nat /\ len[i] \in Nat /\ count[i] \in Nat
         /\ Seen(i, t) \in Nat /\ Seen(i, t) <= t[1] * t[2]
         /\ state[i] = 0 => Seen(i, t) = t[1] * t[2]
         /\ state[i] = 2 => Seen(i, t) < t[1] * t[2]
<1>1. HalfWords \in Nat \ {0}
  BY StreamAssumption
<1>2. /\ state[i] \in 0 .. 2 /\ words[i] \in Nat /\ len[i] \in Nat /\ count[i] \in Nat
      /\ rleft \in Nat /\ wleft \in Nat
  BY <1>1, SameUnits DEF units!IInv, units!TypeOK
<1>3. state[i] # 2 => words[i] = 0
  BY SameUnits DEF units!IInv, units!OthersWait, units!ReadGranted, units!WriteGranted
<1>4. state[i] = 2 => words[i] < len[i]
  <2>1. SUFFICES ASSUME state[i] = 2 PROVE words[i] < len[i]
    OBVIOUS
  <2>2. len[i] # 0
    BY <2>1, SameUnits DEF units!IInv, units!LengthsSet
  <2>3. CASE words[i] = 0
    BY <1>2, <2>2, <2>3
  <2>4. CASE words[i] # 0 /\ r_running /\ r_slave = i
    BY <1>2, <2>4 DEF units!IInv, units!ReadGranted, units!ChannelOwned
  <2>5. CASE words[i] # 0 /\ w_running /\ w_slave = i
    BY <1>2, <2>5 DEF units!IInv, units!WriteGranted, units!ChannelOwned
  <2>6. QED BY <2>3, <2>4, <2>5, SameUnits DEF units!IInv, units!OthersWait
<1>5. Seen(i, t) = (t[1] - count[i]) * t[2] + words[i]
  BY DEF Seen, Transfers
<1>6. PICK a \in Nat, b \in Nat, c \in Nat : a = t[1] /\ b = t[2] /\ c = count[i]
  BY <1>2
<1>7. c <= a
  BY <1>6 DEF Transfers
<1>8. /\ (a - c) * b \in Nat /\ (a - c) * b <= a * b
      /\ c = 0 \/ b = 0 => (a - c) * b = a * b
      /\ c # 0 => (a - c) * b + b <= a * b
  <2>1. PICK d \in Nat : d = a - c
    BY <1>7
  <2>2. a * b = d * b + c * b
    BY <2>1
  <2>3. d * b \in Nat /\ c * b \in Nat
    BY <2>1
  <2>4. c # 0 => c * b >= b
    OBVIOUS
  <2>5. c = 0 \/ b = 0 => c * b = 0
    OBVIOUS
  <2>6. QED BY <2>1, <2>2, <2>3, <2>4, <2>5
<1>9. Seen(i, t) = (a - c) * b + words[i] /\ len[i] = b
  BY <1>5, <1>6 DEF Transfers
<1>10. state[i] # 0 => words[i] <= b
  BY <1>2, <1>3, <1>4, <1>9
<1>11. (state[i] = 0 => c = 0 \/ b = 0) /\ (state[i] = 2 => c # 0)
  BY <1>6 DEF Transfers
<1> HIDE DEF Seen
<1>12. CASE state[i] = 2
  BY <1>2, <1>4, <1>6, <1>8, <1>9, <1>11, <1>12
<1>13. CASE state[i] # 2
  BY <1>2, <1>3, <1>6, <1>8, <1>9, <1>11, <1>13
<1>14. QED BY <1>12, <1>13

LEMMA UnitsAssumed == units!SlavesAssumption /\ units!DatabusAssumption
BY StreamAssumption DEF units!SlavesAssumption, units!DatabusAssumption, units!Slaves, VWrite

\* What an edge of the databus does to a unit: it sees a word, the next of its
\* transfers, or it does not.
LEMMA SeenStep ==
  ASSUME units!IInv, NEW h \in SUBSET {VWrite}, NEW rgo \in BOOLEAN, NEW wgo \in BOOLEAN,
         Bus!Clock(h, rgo, wgo), NEW i \in 0 .. 1, NEW t, t[1] \in Nat, t[2] \in Nat,
         Transfers(i, t)
  PROVE  /\ units!IInv' /\ Transfers(i, t)'
         /\ state[i] \in 0 .. 2 /\ state'[i] \in 0 .. 2
         /\ state[i] = 0 => state'[i] = 0
         /\ state[i] = 1 => state'[i] # 1
         /\ state[i] = 2 => state'[i] # 0
         /\ Bus!Ready(i, Bus!Valid(h), rgo, wgo) =>
              /\ state[i] = 2 /\ Seen(i, t)' = Seen(i, t) + 1
              /\ i = VWrite => VWrite \in h
         /\ ~Bus!Ready(i, Bus!Valid(h), rgo, wgo) => Seen(i, t)' = Seen(i, t)
<1> DEFINE valid   == units!Valid(h)
           ready   == units!Ready(i, valid, rgo, wgo)
           advance == units!Advance(i, valid, rgo, wgo)
<1>1. /\ units!Clock(h, rgo, wgo) /\ i \in units!Slaves
      /\ Bus!Ready(i, Bus!Valid(h), rgo, wgo) <=> ready
  BY SameUnits
<1>2. units!IInv'
  <2>1. units!Next
    BY <1>1 DEF units!Next
  <2>2. QED BY <2>1, UnitsAssumed, units!Inductive
<1>3. /\ ready <=> \/ units!ReadWord(rgo) /\ i = r_slave
                   \/ units!WriteWord(valid, wgo) /\ i = w_slave
      /\ ready => /\ state[i] = 2
                  /\ units!Last(i, valid, rgo, wgo) <=> advance
                  /\ units!Last(i, valid, rgo, wgo) <=> words[i] + 1 = len[i]
      /\ advance => ready
  <2>1. advance => ready
    BY DEF units!Advance
  <2>2. QED BY <1>1, <2>1, UnitsAssumed, units!Handshakes
<1>4. /\ state' = [j \in units!Slaves |->
            CASE state[j] = 0 -> 0
              [] state[j] = 1 -> IF count_is_zero[j] THEN 0 ELSE 2
              [] state[j] = 2 -> IF units!Advance(j, valid, rgo, wgo) THEN 1 ELSE 2]
      /\ count' = [j \in units!Slaves |->
            IF units!Advance(j, valid, rgo, wgo) /\ count[j] # 0 THEN count[j] - 1 ELSE count[j]]
      /\ count_is_zero' = [j \in units!Slaves |->
            count_is_zero[j] \/ (units!Advance(j, valid, rgo, wgo) /\ count[j] = 1)]
      /\ len' = len
      /\ words' = [j \in units!Slaves |->
            IF ~units!Ready(j, valid, rgo, wgo) THEN words[j]
            ELSE IF units!Last(j, valid, rgo, wgo) THEN 0 ELSE words[j] + 1]
  BY <1>1 DEF units!Clock, units!UnitsClock
<1>5. /\ state[i] \in 0 .. 2 /\ words[i] \in Nat /\ len[i] \in Nat /\ count[i] \in Nat
  BY SeenFacts
<1>6. /\ state'[i] = CASE state[i] = 0 -> 0
                       [] state[i] = 1 -> IF count_is_zero[i] THEN 0 ELSE 2
                       [] state[i] = 2 -> IF advance THEN 1 ELSE 2
      /\ count'[i] = IF advance /\ count[i] # 0 THEN count[i] - 1 ELSE count[i]
      /\ count_is_zero'[i] = (count_is_zero[i] \/ (advance /\ count[i] = 1))
      /\ len'[i] = len[i]
      /\ words'[i] = IF ~ready THEN words[i]
                     ELSE IF units!Last(i, valid, rgo, wgo) THEN 0 ELSE words[i] + 1
  BY <1>1, <1>4
<1>7. ready /\ i = VWrite => VWrite \in h
  <2>1. SUFFICES ASSUME ready, i = VWrite PROVE VWrite \in h
    OBVIOUS
  <2>2. units!ReadWord(rgo) => r_slave # VWrite
    BY DEF units!ReadWord, units!rready, units!IInv, units!ChannelOwned, units!ReadGranted,
           units!Readers
  <2>3. units!WriteWord(valid, wgo) /\ w_slave = VWrite
    BY <1>3, <2>1, <2>2
  <2>4. QED BY <2>3 DEF units!WriteWord, units!wready, units!m_wvalid_o, units!Valid
<1> HIDE DEF ready, advance
<1>8. PICK st, c, z, w, l :
        st = state[i] /\ c = count[i] /\ z = count_is_zero[i] /\ w = words[i] /\ l = len[i]
  OBVIOUS
<1>9. PICK st2, c2, z2, w2, l2 :
        st2 = state'[i] /\ c2 = count'[i] /\ z2 = count_is_zero'[i] /\ w2 = words'[i] /\ l2 = len'[i]
  OBVIOUS
<1>10. /\ st \in 0 .. 2 /\ c \in Nat /\ w \in Nat /\ l = t[2] /\ c <= t[1]
       /\ st # 0 => (z <=> c = 0)
       /\ st = 2 => c # 0
       /\ st = 0 => c = 0 \/ t[2] = 0
  BY <1>5, <1>8 DEF Transfers
<1>11. CASE advance
  <2>0. ready /\ st = 2 /\ c # 0 /\ units!Last(i, valid, rgo, wgo)
    BY <1>3, <1>8, <1>10, <1>11
  <2>1. st = 2 /\ st2 = 1 /\ c2 = c - 1 /\ (z2 <=> z \/ c = 1) /\ w2 = 0 /\ w + 1 = l /\ l2 = l
    <3>1. st2 = 1
      BY <1>6, <1>8, <1>9, <1>11, <2>0
    <3>2. z2 <=> z \/ c = 1
      BY <1>6, <1>8, <1>9, <1>11
    <3>3. c2 = c - 1
      BY <1>6, <1>8, <1>9, <1>11, <2>0
    <3>4. w2 = 0 /\ w + 1 = l /\ l2 = l
      BY <1>3, <1>6, <1>8, <1>9, <2>0
    <3>5. QED BY <2>0, <3>1, <3>2, <3>3, <3>4
  <2>2. Transfers(i, t)'
    BY <1>9, <1>10, <2>1 DEF Transfers
  <2>3. Seen(i, t)' = (t[1] - c2) * l2 + w2 /\ Seen(i, t) = (t[1] - c) * l + w
    BY <1>8, <1>9 DEF Seen
  <2>4. (t[1] - c2) * l2 + w2 = (t[1] - c) * l + w + 1
    <3>1. PICK d \in Nat : d = t[1] - c
      BY <1>10
    <3>2. t[1] - c2 = d + 1
      BY <1>10, <2>1, <3>1
    <3>3. (d + 1) * l = d * l + l
      BY <1>10
    <3>4. d * l \in Nat
      BY <1>10
    <3>5. QED BY <1>10, <2>1, <3>1, <3>2, <3>3, <3>4
  <2>5. QED BY <1>1, <1>2, <1>3, <1>7, <1>8, <1>9, <1>11, <2>1, <2>2, <2>3, <2>4
<1>12. CASE ~advance
  <2>1. c2 = c /\ (z2 <=> z) /\ l2 = l /\ w2 = (IF ready THEN w + 1 ELSE w)
        /\ st2 = (CASE st = 0 -> 0 [] st = 1 -> IF z THEN 0 ELSE 2 [] st = 2 -> 2)
    BY <1>3, <1>6, <1>8, <1>9, <1>10, <1>12
  <2>2. Transfers(i, t)'
    BY <1>9, <1>10, <2>1 DEF Transfers
  <2>3. Seen(i, t)' = (t[1] - c2) * l2 + w2 /\ Seen(i, t) = (t[1] - c) * l + w
    BY <1>8, <1>9 DEF Seen
  <2>4. (t[1] - c) * l \in Int
    BY <1>10
  <2>5. Seen(i, t)' = IF ready THEN Seen(i, t) + 1 ELSE Seen(i, t)
    BY <1>10, <2>1, <2>3, <2>4
  <2>6. QED BY <1>1, <1>2, <1>3, <1>7, <1>8, <1>9, <1>10, <2>1, <2>2, <2>5
<1>13. QED BY <1>11, <1>12

\* A unit's way through n words in one edge: from s to s2, having seen so many.
Progress(n, got, s, s2, seen, seen2) ==
  /\ s \in 0 .. 2 /\ s2 \in 0 .. 2
  /\ (s = 0 => s2 = 0) /\ (s = 1 => s2 # 1) /\ (s = 2 => s2 # 0)
  /\ seen \in 0 .. n /\ (s = 0 => seen = n) /\ (s = 2 => seen < n)
  /\ got => s = 2 /\ seen2 = seen + 1
  /\ ~got => seen2 = seen

LEMMA TileFacts ==
  ASSUME NEW t, IsTile(t)
  PROVE  /\ t.words \in 0 .. HalfWords /\ HalfWords \in Nat \ {0}
         /\ t.fetch[1] \in 0 .. HalfWords /\ t.fetch[2] \in 0 .. HalfWords
         /\ t.send[1] \in 0 .. HalfWords /\ t.send[2] \in 0 .. HalfWords
         /\ t.fetch[1] * t.fetch[2] = t.words /\ t.send[1] * t.send[2] = t.words
BY StreamAssumption DEF IsTile

\* What a cycle without the start of a run does on the databus.
LEMMA BusStep ==
  ASSUME BusInv, UnitsTypeOK, NEW rgo \in BOOLEAN, NEW wgo \in BOOLEAN, UnitsClock(rgo, wgo)
  PROVE  /\ BusInv'
         /\ Progress(asked[1].words, ReadyOf(VRead, rgo, wgo), state[VRead], state'[VRead],
                     Fetched, Fetched')
         /\ Progress(asked[3].words, ReadyOf(VWrite, rgo, wgo), state[VWrite], state'[VWrite],
                     Sent, Sent')
         /\ ReadyOf(VWrite, rgo, wgo) => data_valid
<1>1. /\ Bus!Clock(HasData, rgo, wgo) /\ asked' = asked /\ units!IInv
  BY DEF UnitsClock, BusInv
<1>2. HasData \in SUBSET {VWrite} /\ (VWrite \in HasData => data_valid)
  BY DEF HasData
<1>3. IsTile(asked[1]) /\ IsTile(asked[3])
  BY DEF UnitsTypeOK
<1>4. PICK f : f = Fetches
  OBVIOUS
<1>5. PICK s : s = Sends
  OBVIOUS
<1>6. /\ f[1] \in Nat /\ f[2] \in Nat /\ f[1] * f[2] = asked[1].words
      /\ s[1] \in Nat /\ s[2] \in Nat /\ s[1] * s[2] = asked[3].words
  BY <1>3, <1>4, <1>5, TileFacts DEF Fetches, Sends
<1>7. Transfers(VRead, f) /\ Transfers(VWrite, s)
  BY <1>4, <1>5 DEF BusInv
<1>8. VRead \in 0 .. 1 /\ VWrite \in 0 .. 1 /\ VRead # VWrite
  BY DEF VRead, VWrite
<1>9. /\ Fetched = Seen(VRead, f) /\ Sent = Seen(VWrite, s)
  BY <1>4, <1>5 DEF Fetched, Sent
<1>10. f = Fetches' /\ s = Sends'
  BY <1>1, <1>4, <1>5 DEF Fetches, Sends
<1>11. Fetched' = Seen(VRead, f)' /\ Sent' = Seen(VWrite, s)'
  BY <1>10 DEF Fetched, Sent, Seen
<1> HIDE DEF VRead, VWrite
<1>12. /\ units!IInv' /\ Transfers(VRead, f)'
       /\ Progress(f[1] * f[2], ReadyOf(VRead, rgo, wgo), state[VRead], state'[VRead],
                   Seen(VRead, f), Seen(VRead, f)')
  <2>1. /\ units!IInv' /\ Transfers(VRead, f)'
        /\ state[VRead] \in 0 .. 2 /\ state'[VRead] \in 0 .. 2
        /\ state[VRead] = 0 => state'[VRead] = 0
        /\ state[VRead] = 1 => state'[VRead] # 1
        /\ state[VRead] = 2 => state'[VRead] # 0
        /\ Bus!Ready(VRead, Bus!Valid(HasData), rgo, wgo) =>
             /\ state[VRead] = 2 /\ Seen(VRead, f)' = Seen(VRead, f) + 1
             /\ VRead = VWrite => VWrite \in HasData
        /\ ~Bus!Ready(VRead, Bus!Valid(HasData), rgo, wgo) =>
             Seen(VRead, f)' = Seen(VRead, f)
    BY <1>1, <1>2, <1>6, <1>7, <1>8, SeenStep
  <2>2. /\ Seen(VRead, f) \in Nat /\ Seen(VRead, f) <= f[1] * f[2]
        /\ state[VRead] = 0 => Seen(VRead, f) = f[1] * f[2]
        /\ state[VRead] = 2 => Seen(VRead, f) < f[1] * f[2]
    BY <1>1, <1>6, <1>7, <1>8, SeenFacts
  <2>3. QED BY <1>6, <2>1, <2>2 DEF Progress, ReadyOf
<1>13. /\ Transfers(VWrite, s)'
       /\ Progress(s[1] * s[2], ReadyOf(VWrite, rgo, wgo), state[VWrite], state'[VWrite],
                   Seen(VWrite, s), Seen(VWrite, s)')
       /\ ReadyOf(VWrite, rgo, wgo) => VWrite \in HasData
  <2>1. /\ Transfers(VWrite, s)'
        /\ state[VWrite] \in 0 .. 2 /\ state'[VWrite] \in 0 .. 2
        /\ state[VWrite] = 0 => state'[VWrite] = 0
        /\ state[VWrite] = 1 => state'[VWrite] # 1
        /\ state[VWrite] = 2 => state'[VWrite] # 0
        /\ Bus!Ready(VWrite, Bus!Valid(HasData), rgo, wgo) =>
             /\ state[VWrite] = 2 /\ Seen(VWrite, s)' = Seen(VWrite, s) + 1
             /\ VWrite \in HasData
        /\ ~Bus!Ready(VWrite, Bus!Valid(HasData), rgo, wgo) =>
             Seen(VWrite, s)' = Seen(VWrite, s)
    BY <1>1, <1>2, <1>6, <1>7, <1>8, SeenStep
  <2>2. /\ Seen(VWrite, s) \in Nat /\ Seen(VWrite, s) <= s[1] * s[2]
        /\ state[VWrite] = 0 => Seen(VWrite, s) = s[1] * s[2]
        /\ state[VWrite] = 2 => Seen(VWrite, s) < s[1] * s[2]
    BY <1>1, <1>6, <1>7, <1>8, SeenFacts
  <2>3. QED BY <1>6, <2>1, <2>2 DEF Progress, ReadyOf
<1>14. BusInv'
  BY <1>10, <1>12, <1>13 DEF BusInv, Transfers
<1>15. QED BY <1>2, <1>6, <1>9, <1>11, <1>12, <1>13, <1>14

-----------------------------------------------------------------------------
\* What a cycle of the join does whose result is always taken: the second buffer
\* holds a word for one cycle at most.
WordMoves(in2, reset) ==
  /\ second_state' = IF reset \/ in2 = None THEN "EMPTY" ELSE "DATA"
  /\ second_data' = IF in2 = None THEN second_data ELSE in2

LEMMA WordStep ==
  ASSUME second_state \in {"EMPTY", "DATA"}, second_state = "DATA" => first_state # "EMPTY",
         first_state \in {"EMPTY", "DATA", "EXTRA"},
         NEW in1, NEW in2, NEW reset \in BOOLEAN, writer!JoinClock(in1, in2, TRUE, reset)
  PROVE  WordMoves(in2, reset)
<1>1. writer!secondBuffer!Clock(in2, TRUE /\ writer!firstBuffer!out_valid_o, reset)
  BY DEF writer!JoinClock
<1>2. writer!firstBuffer!out_valid_o <=> first_state # "EMPTY"
  BY DEF writer!firstBuffer!out_valid_o
<1>3. QED
  BY <1>1, <1>2 DEF WordMoves, writer!secondBuffer!Clock, writer!secondBuffer!CycleEmpty,
     writer!secondBuffer!CycleData, writer!secondBuffer!CycleExtra, writer!secondBuffer!Enter

\* The place at the front leaves with the word, the generator's joins the back.
LEMMA PlaceStep ==
  ASSUME second_state \in {"EMPTY", "DATA"}, second_state = "DATA" => first_state # "EMPTY",
         first_state \in {"EMPTY", "DATA", "EXTRA"},
         NEW in1, NEW in2, NEW reset \in BOOLEAN, writer!JoinClock(in1, in2, TRUE, reset)
  PROVE  LET takes == second_state = "DATA"
             puts  == in1 # None
         IN /\ first_state' = IF reset THEN "EMPTY" ELSE
                 CASE first_state = "EMPTY" -> IF puts THEN "DATA" ELSE "EMPTY"
                   [] first_state = "DATA" -> IF takes THEN IF puts THEN "DATA" ELSE "EMPTY"
                                              ELSE IF puts THEN "EXTRA" ELSE "DATA"
                   [] OTHER -> IF takes THEN "DATA" ELSE "EXTRA"
            /\ first_data' = CASE first_state = "EMPTY" -> IF puts THEN in1 ELSE first_data
                               [] first_state = "DATA" -> IF takes /\ puts THEN in1 ELSE first_data
                               [] OTHER -> IF takes THEN first_extra ELSE first_data
            /\ first_extra' = IF first_state = "DATA" /\ ~takes /\ puts THEN in1 ELSE first_extra
<1>1. writer!firstBuffer!Clock(in1, TRUE /\ writer!secondBuffer!out_valid_o, reset)
  BY DEF writer!JoinClock
<1>2. writer!secondBuffer!out_valid_o <=> second_state = "DATA"
  BY DEF writer!secondBuffer!out_valid_o
<1>3. CASE first_state = "EMPTY"
  BY <1>1, <1>2, <1>3 DEF writer!firstBuffer!Clock, writer!firstBuffer!CycleEmpty,
     writer!firstBuffer!CycleData, writer!firstBuffer!CycleExtra, writer!firstBuffer!Enter
<1>4. CASE first_state = "DATA"
  BY <1>1, <1>2, <1>4 DEF writer!firstBuffer!Clock, writer!firstBuffer!CycleEmpty,
     writer!firstBuffer!CycleData, writer!firstBuffer!CycleExtra, writer!firstBuffer!Enter
<1>5. CASE first_state = "EXTRA"
  BY <1>1, <1>2, <1>5 DEF writer!firstBuffer!Clock, writer!firstBuffer!CycleEmpty,
     writer!firstBuffer!CycleData, writer!firstBuffer!CycleExtra, writer!firstBuffer!Enter
<1>6. QED BY <1>3, <1>4, <1>5

-----------------------------------------------------------------------------
\* A place of a half is the place of the word with its number.
LEMMA PlaceFacts ==
  ASSUME NEW h \in BOOLEAN, NEW x \in Nat
  PROVE  /\ PlaceOf(h, x) \in Place /\ PlaceOf(h, x) # None
         /\ x < HalfWords => PlaceOf(h, x) = <<h, x>>
<1>1. HalfWords \in Nat \ {0}
  BY StreamAssumption
<1>2. x % HalfWords \in 0 .. HalfWords - 1 /\ (x < HalfWords => x % HalfWords = x)
  BY <1>1, Wrap
<1>3. PlaceOf(h, x) \in Place
  BY <1>2 DEF PlaceOf, Place
<1>4. QED BY <1>2, <1>3, StreamAssumption DEF PlaceOf

\* The address generators: a place accepted is followed by the next.
LEMMA GenStep ==
  ASSUME NEW ready \in BOOLEAN, NEW addr, NEW x \in Nat, addr = x % HalfWords
  PROVE  GenAddr(TRUE, ready, addr, FALSE) = IF ready THEN (x + 1) % HalfWords ELSE x % HalfWords
<1>1. HalfWords \in Nat \ {0}
  BY StreamAssumption
<1>2. ((x % HalfWords) + 1) % HalfWords = (x + 1) % HalfWords
  BY <1>1, Wrap
<1>3. QED BY <1>2 DEF GenAddr

FetchType ==
  /\ r_gen_valid \in BOOLEAN /\ r_gen_addr \in 0 .. HalfWords - 1
  /\ r_ram \in [Place -> TileWord \cup {None}]
  /\ first_state \in {"EMPTY", "DATA", "EXTRA"} /\ second_state \in {"EMPTY", "DATA"}
  /\ {first_data, first_extra} \subseteq Place \cup {None}
  /\ second_data \in TileWord \cup {None}

\* What an edge does to the join and to the generator before it.
JoinMoves(got) ==
  LET takes == second_state = "DATA" IN
  /\ second_state' = (IF running /\ got THEN "DATA" ELSE "EMPTY")
  /\ second_data' = (IF got THEN FetchedIn(run_tag, Fetched) ELSE second_data)
  /\ first_state' = IF ~running THEN "EMPTY" ELSE
       CASE first_state = "EMPTY" -> IF r_gen_valid THEN "DATA" ELSE "EMPTY"
         [] first_state = "DATA" -> IF takes THEN IF r_gen_valid THEN "DATA" ELSE "EMPTY"
                                    ELSE IF r_gen_valid THEN "EXTRA" ELSE "DATA"
         [] OTHER -> IF takes THEN "DATA" ELSE "EXTRA"
  /\ first_data' = CASE first_state = "EMPTY" -> IF r_gen_valid THEN genPlace ELSE first_data
                     [] first_state = "DATA" -> IF takes /\ r_gen_valid THEN genPlace ELSE first_data
                     [] OTHER -> IF takes THEN first_extra ELSE first_data
  /\ first_extra' = (IF first_state = "DATA" /\ ~takes /\ r_gen_valid THEN genPlace ELSE first_extra)

LEMMA JoinStep ==
  ASSUME UnitsTypeOK, FetchInv, NEW rgo \in BOOLEAN, NEW wgo \in BOOLEAN,
         UnitsClock(rgo, wgo), Fetched \in Nat,
         ReadyOf(VRead, rgo, wgo) => Fetched < HalfWords
  PROVE  /\ JoinMoves(ReadyOf(VRead, rgo, wgo))
         /\ FetchType'
<1> DEFINE in1 == IF r_gen_valid THEN genPlace ELSE None
           got == ReadyOf(VRead, rgo, wgo)
           in2 == IF got THEN FetchedIn(run_tag, Fetched) ELSE None
<1>1. VReadClock(FALSE, FALSE, in2)
  BY DEF UnitsClock, FetchedIn, Fetched, Fetches
<1>2. writer!JoinClock(in1, in2, TRUE, ~running \/ FALSE)
  BY <1>1 DEF VReadClock
<1>3. in1 \in Place \cup {None} /\ (in1 # None <=> r_gen_valid)
  <2>1. genPlace \in Place
    BY DEF genPlace, Place, UnitsTypeOK
  <2>2. QED BY <2>1, StreamAssumption
<1>4. in2 \in TileWord \cup {None} /\ (in2 # None <=> got)
  <2>1. got => FetchedIn(run_tag, Fetched) \in TileWord
    BY StreamAssumption DEF UnitsTypeOK, TileWord, FetchedIn
  <2>2. QED BY <2>1, StreamAssumption
<1>5. /\ second_state \in {"EMPTY", "DATA"} /\ (second_state = "DATA" => first_state # "EMPTY")
      /\ first_state \in {"EMPTY", "DATA", "EXTRA"} /\ (~running \/ FALSE) \in BOOLEAN
  BY DEF UnitsTypeOK, FetchInv
<1>6. WordMoves(in2, ~running \/ FALSE)
  <2> HIDE DEF in1, in2, got
  <2>1. QED BY <1>2, <1>5, WordStep
<1>7. JoinMoves(got)
  <2>1. /\ second_state' = (IF running /\ got THEN "DATA" ELSE "EMPTY")
        /\ second_data' = (IF got THEN FetchedIn(run_tag, Fetched) ELSE second_data)
    BY <1>4, <1>6 DEF WordMoves
  <2> HIDE DEF in1, in2, got
  <2>2. LET takes == second_state = "DATA"
            puts  == in1 # None
        IN /\ first_state' = IF ~running \/ FALSE THEN "EMPTY" ELSE
                CASE first_state = "EMPTY" -> IF puts THEN "DATA" ELSE "EMPTY"
                  [] first_state = "DATA" -> IF takes THEN IF puts THEN "DATA" ELSE "EMPTY"
                                             ELSE IF puts THEN "EXTRA" ELSE "DATA"
                  [] OTHER -> IF takes THEN "DATA" ELSE "EXTRA"
           /\ first_data' = CASE first_state = "EMPTY" -> IF puts THEN in1 ELSE first_data
                              [] first_state = "DATA" -> IF takes /\ puts THEN in1 ELSE first_data
                              [] OTHER -> IF takes THEN first_extra ELSE first_data
           /\ first_extra' = IF first_state = "DATA" /\ ~takes /\ puts THEN in1 ELSE first_extra
    BY <1>2, <1>5, PlaceStep
  <2>3. r_gen_valid => in1 = genPlace
    BY DEF in1
  <2>4. QED BY <1>3, <2>1, <2>2, <2>3 DEF JoinMoves
<1>8. FetchType'
  <2>1. /\ r_gen_valid' = (FALSE \/ (running /\ r_gen_valid))
        /\ r_gen_addr' = GenAddr(r_gen_valid, writer!firstBuffer!in_ready_o, r_gen_addr, FALSE)
        /\ r_ram' = IF writer!result_valid_o THEN [r_ram EXCEPT ![first_data] = second_data]
                    ELSE r_ram
    BY <1>1 DEF VReadClock, GenValid
  <2>2. r_gen_valid' \in BOOLEAN
    BY <2>1 DEF UnitsTypeOK
  <2>3. r_gen_addr' \in 0 .. HalfWords - 1
    <3>1. (r_gen_addr + 1) % HalfWords \in 0 .. HalfWords - 1
      BY StreamAssumption DEF UnitsTypeOK
    <3>2. QED BY <2>1, <3>1 DEF UnitsTypeOK, GenAddr
  <2>4. r_ram' \in [Place -> TileWord \cup {None}]
    BY <2>1 DEF UnitsTypeOK
  <2>5. /\ first_state' \in {"EMPTY", "DATA", "EXTRA"} /\ second_state' \in {"EMPTY", "DATA"}
    BY <1>7 DEF JoinMoves
  <2>6. {first_data', first_extra'} \subseteq Place \cup {None}
    BY <1>3, <1>7 DEF JoinMoves, UnitsTypeOK
  <2>7. second_data' \in TileWord \cup {None}
    BY <1>4, <1>6 DEF UnitsTypeOK, WordMoves
  <2>8. QED BY <2>2, <2>3, <2>4, <2>5, <2>6, <2>7 DEF FetchType
<1>9. QED BY <1>7, <1>8

-----------------------------------------------------------------------------
\* The places in the join and the number of words that left it.
PlacesInv(stored, places) ==
  /\ first_state # "EMPTY" => first_data = PlaceOf(~r_pingPong, stored)
  /\ first_state = "EXTRA" => first_extra = PlaceOf(~r_pingPong, stored + 1)
  /\ r_gen_valid => r_gen_addr = (stored + places) % HalfWords

\* In a cycle of a run the places move on as the words do.
LEMMA PlacesStep ==
  ASSUME UnitsTypeOK, running, NEW got \in BOOLEAN, JoinMoves(got), NEW x \in Nat,
         second_state = "DATA" => first_state # "EMPTY", PlacesInv(x, Places),
         r_gen_valid' = r_gen_valid, r_pingPong' = r_pingPong,
         r_gen_addr' = GenAddr(r_gen_valid, first_state # "EXTRA", r_gen_addr, FALSE),
         NEW y, y = IF second_state = "DATA" THEN x + 1 ELSE x
  PROVE  PlacesInv(y, Places)'
<1>1. first_state \in {"EMPTY", "DATA", "EXTRA"} /\ r_gen_valid \in BOOLEAN
  BY DEF UnitsTypeOK
<1>2. r_gen_valid => genPlace = PlaceOf(~r_pingPong, x + Places)
  BY DEF genPlace, PlaceOf, PlacesInv
<1>3. PICK acc \in BOOLEAN : acc = (r_gen_valid /\ first_state # "EXTRA")
  BY <1>1
<1>4. y + Places' = x + Places + (IF acc THEN 1 ELSE 0)
  <2>1. CASE first_state = "EMPTY"
    BY <1>1, <1>3, <2>1 DEF JoinMoves, Places
  <2>2. CASE first_state = "DATA"
    BY <1>1, <1>3, <2>2 DEF JoinMoves, Places
  <2>3. CASE first_state = "EXTRA"
    <3>1. ~acc /\ Places = 2
      BY <1>3, <2>3 DEF Places
    <3>2. Places' = IF second_state = "DATA" THEN 1 ELSE 2
      BY <2>3 DEF JoinMoves, Places
    <3>3. QED BY <3>1, <3>2
  <2>4. QED BY <1>1, <2>1, <2>2, <2>3
<1>5. r_gen_valid => r_gen_addr' = (y + Places') % HalfWords
  <2>1. SUFFICES ASSUME r_gen_valid PROVE r_gen_addr' = (y + Places') % HalfWords
    OBVIOUS
  <2>2. PICK z \in Nat : z = x + Places
    BY DEF Places
  <2>3. r_gen_addr = z % HalfWords
    BY <2>1, <2>2 DEF PlacesInv
  <2>4. GenAddr(TRUE, acc, r_gen_addr, FALSE) = IF acc THEN (z + 1) % HalfWords ELSE z % HalfWords
    BY <2>2, <2>3, GenStep
  <2>5. r_gen_addr' = GenAddr(TRUE, acc, r_gen_addr, FALSE)
    BY <1>3, <2>1 DEF GenAddr
  <2>6. y + Places' = IF acc THEN z + 1 ELSE z
    BY <1>4, <2>2
  <2>7. QED BY <2>4, <2>5, <2>6
<1>6. first_state' # "EMPTY" => first_data' = PlaceOf(~r_pingPong, y)
  BY <1>1, <1>2 DEF JoinMoves, Places, PlacesInv
<1>7. first_state' = "EXTRA" => first_extra' = PlaceOf(~r_pingPong, y + 1)
  BY <1>1, <1>2 DEF JoinMoves, Places, PlacesInv
<1>8. QED BY <1>5, <1>6, <1>7 DEF PlacesInv, PlaceOf

-----------------------------------------------------------------------------
LEMMA FetchStep ==
  ASSUME BusInv, UnitsTypeOK, FetchInv, ~running => done,
         NEW rgo \in BOOLEAN, NEW wgo \in BOOLEAN, UnitsClock(rgo, wgo)
  PROVE  FetchInv' /\ FetchType'
<1>1. Progress(asked[1].words, ReadyOf(VRead, rgo, wgo), state[VRead], state'[VRead],
               Fetched, Fetched')
  BY BusStep
<1>2. asked[1].words \in 0 .. HalfWords /\ HalfWords \in Nat \ {0}
  BY TileFacts DEF UnitsTypeOK
<1>3. PICK n, got, s, s2, f, f2 :
        /\ n = asked[1].words /\ got = ReadyOf(VRead, rgo, wgo)
        /\ s = state[VRead] /\ s2 = state'[VRead] /\ f = Fetched /\ f2 = Fetched'
        /\ n \in 0 .. HalfWords /\ got \in BOOLEAN
  BY <1>2 DEF ReadyOf, Bus!Ready, Bus!s_ready_o
<1>4. Progress(n, got, s, s2, f, f2) /\ f \in Nat /\ f2 \in Nat
  BY <1>1, <1>3 DEF Progress
<1>5. /\ running' = (running /\ ~done) /\ run_tag' = run_tag /\ r_pingPong' = r_pingPong
      /\ r_gen_valid' = (FALSE \/ (running /\ r_gen_valid))
      /\ r_gen_addr' = GenAddr(r_gen_valid, first_state # "EXTRA", r_gen_addr, FALSE)
      /\ r_ram' = IF second_state = "DATA" THEN [r_ram EXCEPT ![first_data] = second_data]
                  ELSE r_ram
  <2>1. VReadClock(FALSE, FALSE, IF ReadyOf(VRead, rgo, wgo)
                                   THEN [run |-> run_tag, index |-> Seen(VRead, asked[1].fetch)]
                                   ELSE None)
    BY DEF UnitsClock
  <2>2. writer!firstBuffer!in_ready_o <=> first_state # "EXTRA"
    BY DEF UnitsTypeOK, writer!firstBuffer!in_ready_o
  <2>3. writer!result_valid_o <=> second_state = "DATA"
    BY DEF UnitsTypeOK, FetchInv, writer!result_valid_o, writer!firstBuffer!out_valid_o,
           writer!secondBuffer!out_valid_o
  <2>4. running' = (running /\ ~done) /\ run_tag' = run_tag /\ r_pingPong' = r_pingPong
    BY DEF UnitsClock
  <2>5. r_gen_valid' = (FALSE \/ (running /\ r_gen_valid))
    BY <2>1 DEF VReadClock, GenValid
  <2>6. r_gen_addr' = GenAddr(r_gen_valid, first_state # "EXTRA", r_gen_addr, FALSE)
    BY <2>1, <2>2 DEF VReadClock, GenAddr
  <2>7. r_ram' = IF writer!result_valid_o THEN [r_ram EXCEPT ![first_data] = second_data]
                  ELSE r_ram
    BY <2>1 DEF VReadClock
  <2>8. QED BY <2>3, <2>4, <2>5, <2>6, <2>7
<1>6. JoinMoves(got) /\ FetchType'
  BY <1>2, <1>3, <1>4, JoinStep DEF Progress
<1>7. s2 # 0 => running' /\ running /\ r_gen_valid'
  BY <1>3, <1>4, <1>5 DEF done, Bus!doneDatabus, Progress, FetchInv
<1>8. /\ running' => running
      /\ ~running => s = 0 /\ s2 = 0 /\ second_state = "EMPTY"
  BY <1>3, <1>4, <1>5 DEF done, Bus!doneDatabus, Progress, FetchInv, UnitsTypeOK
<1>9. PICK x \in Nat, y \in Nat : x = Stored /\ y = f
  BY <1>3, <1>4 DEF Stored, FetchInv
<1>10. r_pingPong \in BOOLEAN
  BY DEF UnitsTypeOK
<1>11. /\ y = IF second_state = "DATA" THEN x + 1 ELSE x
       /\ Stored' = y
  <2>1. y = IF second_state = "DATA" THEN x + 1 ELSE x
    BY <1>3, <1>4, <1>9 DEF Stored
  <2>2. second_state' = IF running /\ got THEN "DATA" ELSE "EMPTY"
    BY <1>6 DEF JoinMoves
  <2>3. got => running /\ f2 = f + 1
    BY <1>4, <1>8 DEF Progress
  <2>4. ~got => f2 = f
    BY <1>4 DEF Progress
  <2>5. Stored' = IF second_state' = "DATA" THEN f2 - 1 ELSE f2
    BY <1>3 DEF Stored
  <2>6. CASE got
    BY <1>4, <1>9, <2>1, <2>2, <2>3, <2>5, <2>6
  <2>7. CASE ~got
    BY <1>4, <1>9, <2>1, <2>2, <2>4, <2>5, <2>7
  <2>8. QED BY <2>6, <2>7
<1>12. second_state' = "DATA" =>
         /\ state'[VRead] # 0 /\ first_state' # "EMPTY" /\ Fetched' > 0
         /\ second_data' = FetchedIn(run_tag, Fetched' - 1)
  <2>1. SUFFICES ASSUME second_state' = "DATA"
                 PROVE  /\ s2 # 0 /\ first_state' # "EMPTY" /\ f2 > 0
                        /\ second_data' = FetchedIn(run_tag, f2 - 1)
    BY <1>3
  <2>2. running /\ got /\ second_data' = FetchedIn(run_tag, f)
    BY <1>3, <1>6, <2>1 DEF JoinMoves
  <2>3. s = 2 /\ f2 = f + 1 /\ s2 # 0
    BY <1>4, <2>2 DEF Progress
  <2>4. r_gen_valid /\ first_state # "EMPTY"
    BY <1>3, <2>3 DEF FetchInv
  <2>5. first_state' # "EMPTY"
    BY <1>6, <2>2, <2>4 DEF JoinMoves, UnitsTypeOK
  <2>6. QED BY <1>4, <2>2, <2>3, <2>5
<1>13. state'[VRead] # 0 => running' /\ r_gen_valid'
  BY <1>3, <1>7
<1>14. state'[VRead] = 2 => first_state' # "EMPTY"
  <2>1. SUFFICES ASSUME s2 = 2 PROVE first_state' # "EMPTY"
    BY <1>3
  <2>2. running /\ r_gen_valid
    BY <1>3, <1>4, <2>1 DEF Progress, FetchInv
  <2>3. QED BY <1>6, <2>2 DEF JoinMoves, UnitsTypeOK
<1>15. running => PlacesInv(y, Places)'
  <2>1. SUFFICES ASSUME running PROVE PlacesInv(y, Places)'
    OBVIOUS
  <2>2. PlacesInv(x, Places)
    BY <1>9, <2>1 DEF PlacesInv, FetchInv
  <2>3. second_state = "DATA" => first_state # "EMPTY"
    BY DEF FetchInv
  <2>4. r_gen_valid' = r_gen_valid
    BY <1>5, <2>1 DEF UnitsTypeOK
  <2>5. QED BY <1>3, <1>5, <1>6, <1>11, <2>1, <2>2, <2>3, <2>4, PlacesStep
<1>16. ASSUME NEW i \in 0 .. y - 1
       PROVE  r_ram'[<<~r_pingPong, i>>] = FetchedIn(run_tag, i)
  <2>1. i \in 0 .. HalfWords - 1 /\ <<~r_pingPong, i>> \in Place
    <3>1. i \in 0 .. HalfWords - 1
      BY <1>2, <1>3, <1>4, <1>9 DEF Progress
    <3>2. (~r_pingPong) \in BOOLEAN
      BY <1>10
    <3>3. QED BY <3>1, <3>2 DEF Place
  <2>2. CASE second_state # "DATA"
    <3>1. r_ram' = r_ram /\ i \in 0 .. Stored - 1
      BY <1>5, <1>9, <1>11, <2>2
    <3>2. QED BY <3>1 DEF FetchInv
  <2>3. CASE second_state = "DATA"
    <3>1. y = x + 1 /\ x < HalfWords
      BY <1>2, <1>3, <1>4, <1>9, <1>11, <2>3 DEF Progress
    <3>2. first_data = <<~r_pingPong, x>>
      <4>1. first_data = PlaceOf(~r_pingPong, x)
        BY <1>8, <1>9, <2>3 DEF FetchInv
      <4>2. (~r_pingPong) \in BOOLEAN
        BY <1>10
      <4>3. QED BY <3>1, <4>1, <4>2, PlaceFacts
    <3>3. second_data = FetchedIn(run_tag, x)
      BY <1>3, <1>9, <1>11, <2>3, <3>1 DEF FetchInv
    <3>4. r_ram' = [r_ram EXCEPT ![<<~r_pingPong, x>>] = FetchedIn(run_tag, x)]
      BY <1>5, <2>3, <3>2, <3>3
    <3>5. CASE i = x
      BY <2>1, <3>4, <3>5 DEF UnitsTypeOK
    <3>6. CASE i # x
      <4>1. r_ram'[<<~r_pingPong, i>>] = r_ram[<<~r_pingPong, i>>]
        BY <2>1, <3>4, <3>6 DEF UnitsTypeOK
      <4>2. i \in 0 .. Stored - 1
        BY <1>9, <3>1, <3>6
      <4>3. QED BY <4>1, <4>2 DEF FetchInv
    <3>7. QED BY <3>5, <3>6
  <2>4. QED BY <2>2, <2>3
<1>17. FetchInv'
  BY <1>5, <1>8, <1>11, <1>12, <1>13, <1>14, <1>15, <1>16 DEF FetchInv, PlacesInv, FetchedIn
<1>18. QED BY <1>6, <1>17

-----------------------------------------------------------------------------
\* The databus side of the VRead writes the half the computation does not read.
LEMMA ReadHalfKept ==
  ASSUME UnitsTypeOK, FetchInv, ~running => done, NEW starts, NEW run, NEW word,
         VReadClock(starts, run, word), NEW i \in 0 .. HalfWords - 1
  PROVE  r_ram'[<<r_pingPong, i>>] = r_ram[<<r_pingPong, i>>]
<1>1. r_ram' = IF writer!result_valid_o THEN [r_ram EXCEPT ![first_data] = second_data] ELSE r_ram
  BY DEF VReadClock
<1>2. writer!result_valid_o => running /\ first_state # "EMPTY"
  BY DEF writer!result_valid_o, writer!firstBuffer!out_valid_o, writer!secondBuffer!out_valid_o,
         FetchInv, done, Bus!doneDatabus, UnitsTypeOK
<1>3. writer!result_valid_o => first_data # <<r_pingPong, i>>
  <2>1. SUFFICES ASSUME writer!result_valid_o PROVE first_data # <<r_pingPong, i>>
    OBVIOUS
  <2>2. first_data[1] = ~r_pingPong
    BY <1>2, <2>1 DEF FetchInv, PlaceOf
  <2>3. r_pingPong \in BOOLEAN
    BY DEF UnitsTypeOK
  <2>4. QED BY <2>2, <2>3
<1>4. <<r_pingPong, i>> \in Place /\ r_ram \in [Place -> TileWord \cup {None}]
  BY DEF UnitsTypeOK, Place
<1>5. QED BY <1>1, <1>3, <1>4

ComputeType ==
  /\ {store_value_0, store_value_1} \subseteq BOOLEAN
  /\ {r_ram_reg, r_ram_out, out0} \subseteq TileWord \cup {None}
  /\ {r_turn, w_turn} \subseteq Nat /\ w_delay \in 0 .. Latency
  /\ w_ram \in [Place -> TileWord \cup {None}]

LEMMA ComputeStep ==
  ASSUME UnitsTypeOK, FetchInv, ComputeInv, ~running => done,
         NEW rgo \in BOOLEAN, NEW wgo \in BOOLEAN, UnitsClock(rgo, wgo)
  PROVE  /\ ComputeInv' /\ ComputeType'
         /\ doneOutput /\ doneStore => (doneOutput /\ doneStore)'
         /\ \A i \in 0 .. HalfWords - 1 : w_ram'[<<~w_pingPong, i>>] = w_ram[<<~w_pingPong, i>>]
<1>1. asked[2].words \in 0 .. HalfWords /\ HalfWords \in Nat \ {0}
  BY TileFacts DEF UnitsTypeOK
<1>2. /\ w_turn \in Nat /\ r_turn \in Nat /\ w_delay \in 0 .. 3 /\ Latency = 3
      /\ r_pingPong \in BOOLEAN /\ w_pingPong \in BOOLEAN
      /\ store_value_0 \in BOOLEAN /\ store_value_1 \in BOOLEAN
      /\ r_ram_reg \in TileWord \cup {None} /\ r_ram_out \in TileWord \cup {None}
      /\ out0 \in TileWord \cup {None}
      /\ r_ram \in [Place -> TileWord \cup {None}] /\ w_ram \in [Place -> TileWord \cup {None}]
  BY DEF UnitsTypeOK, Latency
<1>3. PICK word : VReadClock(FALSE, FALSE, word)
  BY DEF UnitsClock
<1>4. /\ asked' = asked /\ run_tag' = run_tag /\ r_pingPong' = r_pingPong
      /\ w_pingPong' = w_pingPong
      /\ r_turn' = (IF r_turn < asked[2].words THEN r_turn + 1 ELSE r_turn)
      /\ w_turn' = (IF w_delay = 0 /\ w_turn < asked[2].words THEN w_turn + 1 ELSE w_turn)
      /\ w_delay' = (IF w_delay > 0 THEN w_delay - 1 ELSE 0)
      /\ w_ram' = (IF w_delay = 0 /\ w_turn < asked[2].words
                   THEN [w_ram EXCEPT ![<<w_pingPong, w_turn>>] = out0] ELSE w_ram)
  BY DEF UnitsClock, VWriteClock, read_mem, store_en, storeHalf
<1>5. /\ r_ram_reg' = (IF r_turn < asked[2].words THEN r_ram[<<r_pingPong, r_turn>>] ELSE r_ram_reg)
      /\ r_ram_out' = r_ram_reg
      /\ store_value_0' = (r_turn < asked[2].words)
      /\ store_value_1' = store_value_0
      /\ out0' = IF store_value_1 THEN r_ram_out ELSE None
  BY <1>3 DEF VReadClock, read_mem
<1>6. PICK n \in 0 .. HalfWords, d \in 0 .. 3, w \in Nat, e \in Nat :
        n = asked[2].words /\ d = w_delay /\ w = w_turn /\ e = Elapsed
  BY <1>1, <1>2 DEF Elapsed
<1>7. /\ e = 3 - d + w /\ w <= n /\ (d > 0 => w = 0)
      /\ r_turn = IF e < n THEN e ELSE n
  BY <1>2, <1>6 DEF ComputeInv, Elapsed
<1>8. PICK e2 \in Nat : e2 = IF d > 0 \/ w < n THEN e + 1 ELSE e
  <2>1. (IF d > 0 \/ w < n THEN e + 1 ELSE e) \in Nat
    OBVIOUS
  <2>2. QED BY <2>1
<1>9. Elapsed' = e2
  BY <1>2, <1>4, <1>6, <1>7, <1>8 DEF Elapsed
<1>10. w_turn' <= n /\ (w_delay' > 0 => w_turn' = 0) /\ w_turn' \in Nat /\ w_delay' \in 0 .. 3
  BY <1>4, <1>6, <1>7
<1>11. r_turn' = IF e2 < n THEN e2 ELSE n
  BY <1>4, <1>6, <1>7, <1>8
<1>12. \A i \in 0 .. n - 1 : r_ram'[<<r_pingPong, i>>] = FetchedIn(Before, i)
  <2>1. SUFFICES ASSUME NEW i \in 0 .. n - 1
                 PROVE  r_ram'[<<r_pingPong, i>>] = FetchedIn(Before, i)
    OBVIOUS
  <2>2. i \in 0 .. HalfWords - 1
    BY <1>1
  <2>3. r_ram'[<<r_pingPong, i>>] = r_ram[<<r_pingPong, i>>]
    BY <1>3, <2>2, ReadHalfKept
  <2>4. QED BY <1>6, <2>3 DEF ComputeInv
<1>13. e2 \in 1 .. n => store_value_0' /\ r_ram_reg' = FetchedIn(Before, e2 - 1)
  <2>1. SUFFICES ASSUME e2 \in 1 .. n
                 PROVE  store_value_0' /\ r_ram_reg' = FetchedIn(Before, e2 - 1)
    OBVIOUS
  <2>2. e2 = e + 1 /\ e \in 0 .. n - 1 /\ r_turn = e /\ r_turn < n
    BY <1>7, <1>8, <2>1
  <2>3. store_value_0'
    BY <1>5, <1>6, <2>2
  <2>4. r_ram_reg' = r_ram[<<r_pingPong, e>>]
    BY <1>5, <1>6, <2>2
  <2>5. r_ram[<<r_pingPong, e>>] = FetchedIn(Before, e)
    BY <1>6, <2>2 DEF ComputeInv
  <2>6. e2 - 1 = e
    BY <2>2
  <2>7. QED BY <2>3, <2>4, <2>5, <2>6
<1>14. e2 - 1 \in 1 .. n => store_value_1' /\ r_ram_out' = FetchedIn(Before, e2 - 2)
  <2>1. SUFFICES ASSUME e2 - 1 \in 1 .. n
                 PROVE  store_value_1' /\ r_ram_out' = FetchedIn(Before, e2 - 2)
    OBVIOUS
  <2>2. e2 = e + 1 /\ e \in 1 .. n
    BY <1>7, <1>8, <2>1
  <2>3. store_value_0 /\ r_ram_reg = FetchedIn(Before, e - 1)
    BY <1>6, <2>2 DEF ComputeInv
  <2>4. e2 - 2 = e - 1
    BY <2>2
  <2>5. QED BY <1>5, <2>3, <2>4
<1>15. e2 - 2 \in 1 .. n => out0' = FetchedIn(Before, e2 - 3)
  <2>1. SUFFICES ASSUME e2 - 2 \in 1 .. n PROVE out0' = FetchedIn(Before, e2 - 3)
    OBVIOUS
  <2>2. e2 = e + 1 /\ e - 1 \in 1 .. n
    BY <1>7, <1>8, <2>1
  <2>3. store_value_1 /\ r_ram_out = FetchedIn(Before, e - 2)
    BY <1>6, <2>2 DEF ComputeInv
  <2>4. e2 - 3 = e - 2
    BY <2>2
  <2>5. QED BY <1>5, <2>3, <2>4
<1>16. ASSUME NEW i \in 0 .. w_turn' - 1
       PROVE  w_ram'[<<w_pingPong, i>>] = FetchedIn(Before, i)
  <2>1. CASE d = 0 /\ w < n
    <3>1. w_ram' = [w_ram EXCEPT ![<<w_pingPong, w>>] = out0] /\ w_turn' = w + 1
      BY <1>4, <1>6, <2>1
    <3>2. out0 = FetchedIn(Before, w)
      <4>1. e - 2 \in 1 .. n /\ e - 3 = w
        BY <1>7, <2>1
      <4>2. QED BY <1>6, <4>1 DEF ComputeInv
    <3>3. i \in 0 .. HalfWords - 1 /\ w \in 0 .. HalfWords - 1
      BY <1>1, <1>6, <2>1, <3>1
    <3>4. <<w_pingPong, i>> \in Place /\ <<w_pingPong, w>> \in Place
      BY <1>2, <3>3 DEF Place
    <3>5. CASE i = w
      BY <1>2, <3>1, <3>2, <3>4, <3>5
    <3>6. CASE i # w
      <4>1. w_ram'[<<w_pingPong, i>>] = w_ram[<<w_pingPong, i>>]
        BY <1>2, <3>1, <3>4, <3>6
      <4>2. i \in 0 .. w_turn - 1
        BY <1>6, <3>1, <3>6
      <4>3. QED BY <4>1, <4>2 DEF ComputeInv
    <3>7. QED BY <3>5, <3>6
  <2>2. CASE ~(d = 0 /\ w < n)
    <3>1. w_ram' = w_ram /\ w_turn' = w_turn
      BY <1>4, <1>6, <2>2
    <3>2. QED BY <3>1 DEF ComputeInv
  <2>3. QED BY <2>1, <2>2
<1>17. ComputeInv'
  <2>1. Before' = Before
    BY <1>4 DEF Before
  <2>2. asked'[2].words = n
    BY <1>4, <1>6
  <2>3. QED
    BY <1>4, <1>9, <1>10, <1>11, <1>12, <1>13, <1>14, <1>15, <1>16, <2>1, <2>2
    DEF ComputeInv, FetchedIn
<1>18. ComputeType'
  <2>1. w_ram' \in [Place -> TileWord \cup {None}]
    BY <1>2, <1>4
  <2>2. r_turn' \in Nat
    BY <1>2, <1>4
  <2>3. r_ram_reg' \in TileWord \cup {None}
    <3>1. r_turn < asked[2].words => <<r_pingPong, r_turn>> \in Place
      BY <1>1, <1>2 DEF Place
    <3>2. QED BY <1>2, <1>5, <3>1
  <2>4. /\ r_ram_out' \in TileWord \cup {None} /\ out0' \in TileWord \cup {None}
        /\ store_value_0' \in BOOLEAN /\ store_value_1' \in BOOLEAN
    BY <1>2, <1>5
  <2>5. QED BY <1>2, <1>10, <2>1, <2>2, <2>3, <2>4 DEF ComputeType, Latency
<1>19. doneOutput /\ doneStore => (doneOutput /\ doneStore)'
  BY <1>4, <1>6 DEF doneOutput, doneStore, read_mem
<1>20. \A i \in 0 .. HalfWords - 1 : w_ram'[<<~w_pingPong, i>>] = w_ram[<<~w_pingPong, i>>]
  <2>1. SUFFICES ASSUME NEW i \in 0 .. HalfWords - 1
                 PROVE  w_ram'[<<~w_pingPong, i>>] = w_ram[<<~w_pingPong, i>>]
    OBVIOUS
  <2>2. <<~w_pingPong, i>> # <<w_pingPong, w_turn>>
    BY <1>2
  <2>3. (~w_pingPong) \in BOOLEAN
    BY <1>2
  <2>4. <<~w_pingPong, i>> \in Place
    BY <2>3 DEF Place
  <2>5. QED BY <1>2, <1>4, <2>2, <2>4
<1>21. QED BY <1>17, <1>18, <1>19, <1>20

-----------------------------------------------------------------------------
SendType == w_gen_valid \in BOOLEAN /\ w_gen_addr \in 0 .. HalfWords - 1

\* What the generator of the VWrite shows the reader.
Offered == IF w_gen_valid THEN [place |-> sentPlace, word |-> w_ram[sentPlace]] ELSE None

LEMMA OfferedFacts ==
  ASSUME UnitsTypeOK
  PROVE  /\ Offered \in Addr \cup {None}
         /\ Offered # None <=> w_gen_valid
<1>1. w_gen_valid \in BOOLEAN /\ w_pingPong \in BOOLEAN /\ w_gen_addr \in 0 .. HalfWords - 1
  BY DEF UnitsTypeOK
<1>2. sentPlace \in Place
  <2>1. (~w_pingPong) \in BOOLEAN
    BY <1>1
  <2>2. QED BY <1>1, <2>1 DEF sentPlace, Place
<1>3. w_ram[sentPlace] \in TileWord \cup {None}
  BY <1>2 DEF UnitsTypeOK
<1>4. [place |-> sentPlace, word |-> w_ram[sentPlace]] \in SentAddresses
  BY <1>2, <1>3 DEF SentAddresses
<1>5. [place |-> sentPlace, word |-> w_ram[sentPlace]] \in Addr
  BY <1>4, StreamAssumption
<1>6. QED BY <1>1, <1>5, ReaderAssumption DEF Offered

\* A sequence from which the first g elements have gone and to which wd has come.
IsShift(q2, q, g, wd) ==
  /\ Len(q) \in Nat /\ g <= Len(q)
  /\ Len(q2) = Len(q) - g + Len(wd)
  /\ \A j \in 1 .. Len(q2) :
       q2[j] = IF j <= Len(q) - g THEN q[j + g] ELSE wd[j - (Len(q) - g)]

LEMMA Shifted ==
  ASSUME NEW S, NEW q \in Seq(S), NEW g \in {0, 1}, g = 1 => q # <<>>,
         NEW wd \in Seq(S), NEW q2, q2 = (IF g = 1 THEN Tail(q) ELSE q) \o wd
  PROVE  IsShift(q2, q, g, wd)
<1>1. PICK rest : rest = IF g = 1 THEN Tail(q) ELSE q
  OBVIOUS
<1>2. Len(q) \in Nat /\ g <= Len(q) /\ Len(wd) \in Nat
  BY EmptySeq, LenProperties
<1>3. /\ rest \in Seq(S) /\ Len(rest) = Len(q) - g
      /\ \A j \in 1 .. Len(q) - g : rest[j] = q[j + g]
  <2>1. CASE g = 1
    BY <1>1, <2>1, HeadTailProperties
  <2>2. CASE g = 0
    BY <1>1, <1>2, <2>2
  <2>3. QED BY <2>1, <2>2
<1>4. /\ rest \o wd \in Seq(S) /\ Len(rest \o wd) = Len(rest) + Len(wd)
      /\ \A j \in 1 .. Len(rest) + Len(wd) :
           (rest \o wd)[j] = IF j <= Len(rest) THEN rest[j] ELSE wd[j - Len(rest)]
  BY <1>3, ConcatProperties
<1>5. q2 = rest \o wd
  BY <1>1
<1>6. Len(q2) = Len(q) - g + Len(wd)
  BY <1>3, <1>4, <1>5
<1>7. ASSUME NEW j \in 1 .. Len(q2)
      PROVE  q2[j] = IF j <= Len(q) - g THEN q[j + g] ELSE wd[j - (Len(q) - g)]
  <2>1. q2[j] = IF j <= Len(rest) THEN rest[j] ELSE wd[j - Len(rest)]
    BY <1>3, <1>4, <1>5, <1>6
  <2>2. j <= Len(q) - g => j \in 1 .. Len(q) - g
    BY <1>2
  <2>3. QED BY <1>3, <2>1, <2>2
<1>8. QED BY <1>2, <1>6, <1>7 DEF IsShift

\* The words in the reader are what the half that is sent holds from x on.
InOrder(x) == \A j \in 1 .. Len(Held) : Held[j] = Response(SentAt(x + j - 1))

LEMMA SendStep ==
  ASSUME BusInv, UnitsTypeOK, IInv, SendInv,
         NEW rgo \in BOOLEAN, NEW wgo \in BOOLEAN, UnitsClock(rgo, wgo),
         \A i \in 0 .. HalfWords - 1 : w_ram'[<<~w_pingPong, i>>] = w_ram[<<~w_pingPong, i>>]
  PROVE  SendInv' /\ IInv' /\ SendType'
<1>1. /\ Progress(asked[3].words, ReadyOf(VWrite, rgo, wgo), state[VWrite], state'[VWrite],
                  Sent, Sent')
      /\ ReadyOf(VWrite, rgo, wgo) => data_valid
  BY BusStep
<1>2. asked[3].words \in 0 .. HalfWords /\ HalfWords \in Nat \ {0}
  BY TileFacts DEF UnitsTypeOK
<1>3. /\ running' = (running /\ ~done) /\ asked' = asked /\ run_tag' = run_tag
      /\ w_pingPong' = w_pingPong
      /\ VWriteClock(FALSE, FALSE, ReadyOf(VWrite, rgo, wgo))
  BY DEF UnitsClock
<1>4. /\ w_gen_valid' = (FALSE \/ (running /\ w_gen_valid))
      /\ w_gen_addr' = GenAddr(w_gen_valid, ~running \/ s_ready_o, w_gen_addr, FALSE)
      /\ IF ~running THEN ForceReset(Offered) ELSE Clock(Offered, ReadyOf(VWrite, rgo, wgo))
  BY <1>3 DEF VWriteClock, GenValid, Offered, GenAddr
<1>5. Offered \in Addr \cup {None} /\ (Offered # None <=> w_gen_valid)
  BY OfferedFacts
<1>6. IInv'
  <2>1. ReadyOf(VWrite, rgo, wgo) \in BOOLEAN
    BY DEF ReadyOf, Bus!Ready, Bus!s_ready_o
  <2>2. Next
    BY <1>4, <1>5, <2>1 DEF Next
  <2>3. QED BY <2>2, Inductive
<1>7. SendType'
  <2>1. w_gen_valid' \in BOOLEAN
    BY <1>4 DEF UnitsTypeOK
  <2>2. w_gen_addr' \in 0 .. HalfWords - 1
    <3>1. (w_gen_addr + 1) % HalfWords \in 0 .. HalfWords - 1
      BY StreamAssumption DEF UnitsTypeOK
    <3>2. QED BY <1>4, <3>1 DEF UnitsTypeOK, GenAddr
  <2>3. QED BY <2>1, <2>2 DEF SendType
<1>8. \A i \in 0 .. asked'[3].words - 1 : w_ram'[<<~w_pingPong', i>>] = FetchedIn(BeforeThat', i)
  <2>1. BeforeThat' = BeforeThat
    BY <1>3 DEF BeforeThat
  <2>2. \A i \in 0 .. asked[3].words - 1 : i \in 0 .. HalfWords - 1
    BY <1>2
  <2>3. QED BY <1>3, <2>1, <2>2 DEF SendInv
<1>9. CASE ~running
  BY <1>3, <1>6, <1>7, <1>8, <1>9 DEF SendInv, FetchedIn
<1>10. CASE running
  <2>1. Clock(Offered, ReadyOf(VWrite, rgo, wgo))
    BY <1>4, <1>10
  <2>2. PICK got \in BOOLEAN : got = ReadyOf(VWrite, rgo, wgo)
    BY DEF ReadyOf, Bus!Ready, Bus!s_ready_o
  <2>3. got => m_valid_o
    BY <1>1, <2>2 DEF data_valid
  <2>4. PICK wd : wd = Word(Loaded(Offered))
    OBVIOUS
  <2>5. Held' = (IF m_valid_o /\ got THEN Tail(Held) ELSE Held) \o wd
    <3>1. TypeOK'
      BY <1>6 DEF IInv
    <3>2. Clock(Offered, got)
      BY <2>1, <2>2
    <3>3. Held' = (IF m_valid_o /\ got THEN Tail(Held) ELSE Held) \o Word(Loaded(Offered))
      BY <1>5, <3>1, <3>2, HeldStep
    <3>4. QED BY <2>4, <3>3
  <2>6. PICK q \in Seq(Entries) : q = Held
    BY HeldFacts
  <2>7. got => q # <<>>
    BY <2>3, <2>6, OldestIsShown
  <2>8. PICK g \in {0, 1} : g = IF got THEN 1 ELSE 0
    OBVIOUS
  <2>9. PICK q2 : q2 = Held'
    OBVIOUS
  <2>10. q2 = (IF g = 1 THEN Tail(q) ELSE q) \o wd
    <3>1. (m_valid_o /\ got) <=> g = 1
      BY <2>3, <2>8
    <3>2. QED BY <2>5, <2>6, <2>9, <3>1
  <2>11. /\ wd \in Seq(Entries) /\ Len(wd) = (IF Loaded(Offered) = None THEN 0 ELSE 1)
         /\ Loaded(Offered) # None => wd[1] = Response(Loaded(Offered))
    <3>1. Loaded(Offered) \in Addr \cup {None}
      BY <1>5 DEF Loaded
    <3>2. QED BY <2>4, <3>1, WordFacts
  <2>12. PICK acc \in BOOLEAN : acc = (w_gen_valid /\ s_ready_o)
    BY DEF UnitsTypeOK
  <2>13. /\ acc => Loaded(Offered) = Offered /\ Loaded(Offered) # None
         /\ ~acc => Loaded(Offered) = None
    BY <1>5, <2>12 DEF Loaded
  <2>14. /\ Len(q) \in Nat /\ g <= Len(q)
         /\ Len(q2) = Len(q) - g + Len(wd)
         /\ \A j \in 1 .. Len(q2) :
              q2[j] = IF j <= Len(q) - g THEN q[j + g] ELSE wd[j - (Len(q) - g)]
    <3>1. IsShift(q2, q, g, wd)
      <4>1. g = 1 => q # <<>>
        BY <2>7, <2>8
      <4>2. wd \in Seq(Entries)
        BY <2>11
      <4>3. QED BY <2>10, <4>1, <4>2, Shifted
    <3>2. QED BY <3>1 DEF IsShift
  <2>15. PICK x \in Nat, x2 \in Nat : x = Sent /\ x2 = Sent'
    BY <1>1 DEF Progress
  <2>16. x2 = x + g
    BY <1>1, <2>2, <2>8, <2>15 DEF Progress
  <2>17. PICK l \in Nat, k \in {0, 1} : l = Len(q) /\ k = Len(wd)
    BY <2>11, <2>14
  <2>18. w_gen_valid => w_gen_addr = (x + l) % HalfWords /\ Offered = SentAt(x + l)
    BY <1>10, <2>6, <2>15, <2>17 DEF SendInv, Offered, SentAt, sentPlace, PlaceOf
  <2>19. \A y \in Nat : SentAt(y)' = SentAt(y)
    <3>1. SUFFICES ASSUME NEW y \in Nat PROVE SentAt(y)' = SentAt(y)
      OBVIOUS
    <3>2. y % HalfWords \in 0 .. HalfWords - 1
      BY <1>2, Wrap
    <3>3. QED BY <1>3, <3>2 DEF SentAt, PlaceOf
  <2>20. ASSUME NEW j \in 1 .. Len(q2)
         PROVE  q2[j] = Response(SentAt(x2 + j - 1)')
    <3>1. j \in Nat /\ 1 <= j /\ j <= l - g + k
      BY <2>14, <2>17
    <3>2. CASE j <= l - g
      <4>1. q2[j] = q[j + g] /\ j + g \in 1 .. Len(Held) /\ q[j + g] = Held[j + g]
        BY <2>6, <2>14, <2>17, <3>1, <3>2
      <4>2. Held[j + g] = Response(SentAt(x + (j + g) - 1))
        BY <1>10, <2>15, <4>1 DEF SendInv
      <4>3. x2 + j - 1 = x + (j + g) - 1 /\ x2 + j - 1 \in Nat
        BY <2>16, <3>1
      <4>4. QED BY <2>19, <4>1, <4>2, <4>3
    <3>3. CASE j > l - g
      <4>1. k = 1 /\ j = l - g + 1
        BY <3>1, <3>3
      <4>2. q2[j] = wd[1]
        <5>1. ~(j <= Len(q) - g) /\ j - (Len(q) - g) = 1
          BY <2>17, <4>1
        <5>2. QED BY <2>14, <5>1
      <4>3. acc /\ wd[1] = Response(Offered)
        BY <2>11, <2>13, <2>17, <4>1
      <4>4. Offered = SentAt(x + l)
        BY <2>12, <2>18, <4>3
      <4>5. x2 + j - 1 = x + l /\ x2 + j - 1 \in Nat
        BY <2>16, <3>1, <4>1
      <4>6. QED BY <2>19, <4>2, <4>3, <4>4, <4>5
    <3>4. QED BY <3>1, <3>2, <3>3
  <2>21. w_gen_valid => w_gen_addr' = (x2 + Len(q2)) % HalfWords
    <3>1. SUFFICES ASSUME w_gen_valid PROVE w_gen_addr' = (x2 + Len(q2)) % HalfWords
      OBVIOUS
    <3>2. PICK z \in Nat : z = x + l
      OBVIOUS
    <3>3. GenAddr(TRUE, acc, w_gen_addr, FALSE) = IF acc THEN (z + 1) % HalfWords ELSE z % HalfWords
      BY <2>18, <3>1, <3>2, GenStep
    <3>4. w_gen_addr' = GenAddr(TRUE, acc, w_gen_addr, FALSE)
      BY <1>4, <1>10, <2>12, <3>1 DEF GenAddr
    <3>5. x2 + Len(q2) = IF acc THEN z + 1 ELSE z
      <4>1. k = IF acc THEN 1 ELSE 0
        BY <2>11, <2>13, <2>17
      <4>2. x2 + Len(q2) = z + k
        BY <2>14, <2>16, <2>17, <3>2
      <4>3. QED BY <4>1, <4>2
    <3>6. QED BY <3>3, <3>4, <3>5
  <2>22. InOrder(x2)'
    BY <2>9, <2>20 DEF InOrder
  <2>23. w_gen_valid' => w_gen_addr' = (x2 + Len(Held')) % HalfWords
    BY <1>4, <2>9, <2>21
  <2>24. SendInv'
    BY <1>8, <2>15, <2>22, <2>23 DEF SendInv, InOrder, FetchedIn
  <2>25. QED BY <1>6, <1>7, <2>24
<1>11. QED BY <1>9, <1>10

-----------------------------------------------------------------------------
LEMMA ClockKeepsAll ==
  ASSUME StreamIInv, NEW rgo \in BOOLEAN, NEW wgo \in BOOLEAN, UnitsClock(rgo, wgo)
  PROVE  StreamIInv'
<1> USE DEF StreamIInv
<1>1. /\ BusInv'
      /\ state[VRead] = 0 => state'[VRead] = 0
      /\ state[VWrite] = 0 => state'[VWrite] = 0
  BY BusStep DEF Progress
<1>2. FetchInv' /\ FetchType'
  BY FetchStep
<1>3. /\ ComputeInv' /\ ComputeType'
      /\ doneOutput /\ doneStore => (doneOutput /\ doneStore)'
      /\ \A i \in 0 .. HalfWords - 1 : w_ram'[<<~w_pingPong, i>>] = w_ram[<<~w_pingPong, i>>]
  BY ComputeStep
<1>4. SendInv' /\ IInv' /\ SendType'
  BY <1>3, SendStep
<1>5. /\ running' = (running /\ ~done) /\ run_tag' = run_tag /\ asked' = asked
      /\ r_pingPong' = r_pingPong /\ w_pingPong' = w_pingPong
  BY DEF UnitsClock
<1>6. UnitsTypeOK'
  <2>1. running' \in BOOLEAN
    BY <1>5 DEF done, Bus!doneDatabus
  <2>2. r_pingPong' \in BOOLEAN /\ w_pingPong' \in BOOLEAN /\ run_tag' \in 0 .. Tags - 1
        /\ \A s \in 1 .. 3 : IsTile(asked'[s])
    BY <1>5 DEF UnitsTypeOK
  <2>3. QED BY <1>2, <1>3, <1>4, <2>1, <2>2 DEF UnitsTypeOK, FetchType, ComputeType, SendType, IsTile
<1>7. ~running' => done'
  <2>1. done => done'
    BY <1>1, <1>3 DEF done, Bus!doneDatabus, VRead, VWrite
  <2>2. ~running' => done
    BY <1>5
  <2>3. QED BY <2>1, <2>2
<1>8. QED BY <1>1, <1>2, <1>3, <1>4, <1>6, <1>7

-----------------------------------------------------------------------------
\* Nothing moves on the databus before the start of a run, and its units start
\* with the transfers of the run before them.
LEMMA BusStarts ==
  ASSUME BusInv, done, NEW f, NEW s, NEW n, NEW m, 
         f[1] \in 0 .. HalfWords, f[2] \in 0 .. HalfWords,
         s[1] \in 0 .. HalfWords, s[2] \in 0 .. HalfWords,
         Bus!Run(ByUnit(f[1], s[1]), ByUnit(f[2], s[2]))
  PROVE  /\ units!IInv' /\ Transfers(VRead, f)' /\ Transfers(VWrite, s)'
         /\ Seen(VRead, f)' = 0 /\ Seen(VWrite, s)' = 0
         /\ state'[VRead] \in {0, 1} /\ (state'[VRead] # 0 => f[2] # 0)
         /\ state'[VWrite] \in {0, 1}
<1>1. /\ units!Slaves = 0 .. 1 /\ Bus!Slaves = 0 .. 1
      /\ units!Run(ByUnit(f[1], s[1]), ByUnit(f[2], s[2]))
  BY SameUnits
<1>2. VRead = 0 /\ VWrite = 1
  BY DEF VRead, VWrite
<1>3. units!IInv'
  <2>1. /\ ByUnit(f[1], s[1]) \in [units!Slaves -> 0 .. HalfWords]
        /\ ByUnit(f[2], s[2]) \in [units!Slaves -> 0 .. HalfWords]
    BY <1>1 DEF ByUnit
  <2>2. units!Next
    BY <1>1, <2>1 DEF units!Next
  <2>3. QED BY <2>2, UnitsAssumed, units!Inductive DEF BusInv
<1>4. /\ state' = [i \in 0 .. 1 |-> IF ByUnit(f[1], s[1])[i] # 0 /\ ByUnit(f[2], s[2])[i] # 0
                                    THEN 1 ELSE 0]
      /\ count' = ByUnit(f[1], s[1])
      /\ count_is_zero' = [i \in 0 .. 1 |-> ByUnit(f[1], s[1])[i] = 0]
      /\ len' = ByUnit(f[2], s[2])
      /\ words' = words
      /\ \A i \in 0 .. 1 : state[i] = 0
  BY <1>1 DEF units!Run, units!doneDatabus
<1>5. /\ ByUnit(f[1], s[1])[0] = f[1] /\ ByUnit(f[1], s[1])[1] = s[1]
      /\ ByUnit(f[2], s[2])[0] = f[2] /\ ByUnit(f[2], s[2])[1] = s[2]
  BY <1>1, <1>2 DEF ByUnit
<1>6. words[0] = 0 /\ words[1] = 0
  BY <1>1, <1>4 DEF BusInv, units!IInv, units!OthersWait, units!ReadGranted, units!WriteGranted
<1> HIDE DEF VRead, VWrite
<1>7. /\ state'[0] = (IF f[1] # 0 /\ f[2] # 0 THEN 1 ELSE 0)
      /\ count'[0] = f[1] /\ (count_is_zero'[0] <=> f[1] = 0) /\ len'[0] = f[2] /\ words'[0] = 0
  <2>1. 0 \in 0 .. 1
    OBVIOUS
  <2>2. state'[0] = (IF f[1] # 0 /\ f[2] # 0 THEN 1 ELSE 0)
    BY <1>4, <1>5, <2>1
  <2>3. count_is_zero'[0] <=> f[1] = 0
    BY <1>4, <1>5, <2>1, Zenon
  <2>4. count'[0] = f[1] /\ len'[0] = f[2] /\ words'[0] = 0
    BY <1>4, <1>5, <1>6
  <2>5. QED BY <2>2, <2>3, <2>4
<1>8. /\ state'[1] = (IF s[1] # 0 /\ s[2] # 0 THEN 1 ELSE 0)
      /\ count'[1] = s[1] /\ (count_is_zero'[1] <=> s[1] = 0) /\ len'[1] = s[2] /\ words'[1] = 0
  <2>1. 1 \in 0 .. 1
    OBVIOUS
  <2>2. state'[1] = (IF s[1] # 0 /\ s[2] # 0 THEN 1 ELSE 0)
    BY <1>4, <1>5, <2>1
  <2>3. count_is_zero'[1] <=> s[1] = 0
    BY <1>4, <1>5, <2>1, Zenon
  <2>4. count'[1] = s[1] /\ len'[1] = s[2] /\ words'[1] = 0
    BY <1>4, <1>5, <1>6
  <2>5. QED BY <2>2, <2>3, <2>4
<1>9. Transfers(VRead, f)' /\ Seen(VRead, f)' = 0
  BY <1>2, <1>7 DEF Transfers, Seen
<1>10. Transfers(VWrite, s)' /\ Seen(VWrite, s)' = 0
  BY <1>2, <1>8 DEF Transfers, Seen
<1>11. QED BY <1>2, <1>3, <1>7, <1>8, <1>9, <1>10

\* The tags of the two runs before the next are those of this one and the one before.
LEMMA TagsMove ==
  ASSUME NEW tag \in 0 .. Tags - 1
  PROVE  /\ (tag + 1) % Tags \in 0 .. Tags - 1
         /\ (((tag + 1) % Tags) + Tags - 1) % Tags = tag
         /\ (((tag + 1) % Tags) + Tags - 2) % Tags = (tag + Tags - 1) % Tags
<1>1. Tags \in Nat \ {0}
  BY StreamAssumption
<1>2. CASE tag + 1 < Tags
  BY <1>1, <1>2
<1>3. CASE tag + 1 = Tags
  BY <1>1, <1>3
<1>4. QED BY <1>1, <1>2, <1>3

\* What the start of a run does to the VRead beside its databus half: the join
\* goes, the memory stays.
LEMMA ReadStarts ==
  ASSUME UnitsTypeOK, FetchInv, ~running, done, NEW starts \in BOOLEAN,
         VReadClock(starts, TRUE, None)
  PROVE  /\ first_state' = "EMPTY" /\ second_state' = "EMPTY" /\ r_ram' = r_ram
         /\ r_gen_valid' = starts /\ (starts => r_gen_addr' = 0)
         /\ FetchType'
         /\ {store_value_0', store_value_1'} \subseteq BOOLEAN
         /\ {r_ram_reg', r_ram_out', out0'} \subseteq TileWord \cup {None}
<1> DEFINE in1 == IF r_gen_valid THEN genPlace ELSE None
<1>1. /\ writer!JoinClock(in1, None, TRUE, ~running \/ TRUE)
      /\ r_gen_valid' = (starts \/ (running /\ r_gen_valid))
      /\ r_gen_addr' = GenAddr(r_gen_valid, writer!firstBuffer!in_ready_o, r_gen_addr, starts)
      /\ r_ram' = IF writer!result_valid_o THEN [r_ram EXCEPT ![first_data] = second_data]
                  ELSE r_ram
      /\ r_ram_reg' = (IF read_mem THEN r_ram[<<r_pingPong, r_turn>>] ELSE r_ram_reg)
      /\ r_ram_out' = r_ram_reg /\ store_value_0' = read_mem /\ store_value_1' = store_value_0
      /\ out0' = IF store_value_1 THEN r_ram_out ELSE None
  BY DEF VReadClock, GenValid
<1>2. ~read_mem /\ second_state = "EMPTY"
  BY DEF done, doneOutput, Bus!doneDatabus, FetchInv, UnitsTypeOK
<1>3. in1 \in Place \cup {None}
  BY DEF genPlace, Place, UnitsTypeOK
<1>4. /\ second_state \in {"EMPTY", "DATA"} /\ (second_state = "DATA" => first_state # "EMPTY")
      /\ first_state \in {"EMPTY", "DATA", "EXTRA"} /\ (~running \/ TRUE) \in BOOLEAN
  BY <1>2 DEF UnitsTypeOK
<1> HIDE DEF in1
<1>5. WordMoves(None, ~running \/ TRUE)
  BY <1>1, <1>4, WordStep
<1>6. second_state' = "EMPTY" /\ second_data' = second_data
  BY <1>5 DEF WordMoves
<1>7. LET takes == second_state = "DATA"
          puts  == in1 # None
      IN /\ first_state' = IF ~running \/ TRUE THEN "EMPTY" ELSE
              CASE first_state = "EMPTY" -> IF puts THEN "DATA" ELSE "EMPTY"
                [] first_state = "DATA" -> IF takes THEN IF puts THEN "DATA" ELSE "EMPTY"
                                           ELSE IF puts THEN "EXTRA" ELSE "DATA"
                [] OTHER -> IF takes THEN "DATA" ELSE "EXTRA"
         /\ first_data' = CASE first_state = "EMPTY" -> IF puts THEN in1 ELSE first_data
                            [] first_state = "DATA" -> IF takes /\ puts THEN in1 ELSE first_data
                            [] OTHER -> IF takes THEN first_extra ELSE first_data
         /\ first_extra' = IF first_state = "DATA" /\ ~takes /\ puts THEN in1 ELSE first_extra
  BY <1>1, <1>4, PlaceStep
<1>8. first_state' = "EMPTY"
  BY <1>7
<1>9. {first_data', first_extra'} \subseteq Place \cup {None}
  BY <1>3, <1>7 DEF UnitsTypeOK
<1>10. r_ram' = r_ram
  BY <1>1, <1>2 DEF writer!result_valid_o, writer!secondBuffer!out_valid_o
<1>11. r_gen_valid' = starts /\ (starts => r_gen_addr' = 0)
  BY <1>1 DEF GenAddr
<1>12. r_gen_addr' \in 0 .. HalfWords - 1
  <2>1. (r_gen_addr + 1) % HalfWords \in 0 .. HalfWords - 1 /\ 0 \in 0 .. HalfWords - 1
    BY StreamAssumption DEF UnitsTypeOK
  <2>2. QED BY <1>1, <2>1 DEF UnitsTypeOK, GenAddr
<1>13. FetchType'
  BY <1>6, <1>8, <1>9, <1>10, <1>11, <1>12 DEF FetchType, UnitsTypeOK
<1>14. {store_value_0', store_value_1'} \subseteq BOOLEAN
  BY <1>1 DEF UnitsTypeOK, read_mem
<1>15. {r_ram_reg', r_ram_out', out0'} \subseteq TileWord \cup {None}
  BY <1>1, <1>2 DEF UnitsTypeOK
<1>16. QED BY <1>6, <1>8, <1>10, <1>11, <1>13, <1>14, <1>15

\* ... and to the VWrite.
LEMMA WriteStarts ==
  ASSUME UnitsTypeOK, IInv, ~running, done, NEW starts \in BOOLEAN,
         VWriteClock(starts, TRUE, FALSE)
  PROVE  /\ IInv' /\ Held' = <<>> /\ w_ram' = w_ram
         /\ w_gen_valid' = starts /\ (starts => w_gen_addr' = 0)
         /\ SendType'
<1>1. /\ w_gen_valid' = (starts \/ (running /\ w_gen_valid))
      /\ w_gen_addr' = GenAddr(w_gen_valid, (~running \/ TRUE) \/ s_ready_o, w_gen_addr, starts)
      /\ ForceReset(Offered)
      /\ w_ram' = IF store_en THEN [w_ram EXCEPT ![<<storeHalf, w_turn>>] = out0] ELSE w_ram
  BY DEF VWriteClock, GenValid, Offered, GenAddr
<1>2. Offered \in Addr \cup {None}
  BY OfferedFacts
<1>3. IInv'
  <2>1. Next
    BY <1>1, <1>2 DEF Next
  <2>2. QED BY <2>1, Inductive
<1>4. Held' = <<>>
  BY <1>1, <1>2, <1>3, ResetEmpties
<1>5. w_ram' = w_ram
  <2>1. asked[2].words \in 0 .. HalfWords /\ HalfWords \in Nat \ {0}
    BY TileFacts DEF UnitsTypeOK
  <2>2. ~store_en
    BY <2>1 DEF store_en, done, doneStore
  <2>3. QED BY <1>1, <2>2
<1>6. w_gen_valid' = starts /\ (starts => w_gen_addr' = 0)
  BY <1>1 DEF GenAddr
<1>7. w_gen_addr' \in 0 .. HalfWords - 1
  <2>1. (w_gen_addr + 1) % HalfWords \in 0 .. HalfWords - 1 /\ 0 \in 0 .. HalfWords - 1
    BY StreamAssumption DEF UnitsTypeOK
  <2>2. QED BY <1>1, <2>1 DEF UnitsTypeOK, GenAddr
<1>8. QED BY <1>3, <1>4, <1>5, <1>6, <1>7 DEF SendType

-----------------------------------------------------------------------------
LEMMA RunKeepsAll ==
  ASSUME StreamIInv, NEW tile \in Tiles, Run(tile)
  PROVE  StreamIInv'
<1> USE DEF StreamIInv
<1>1. /\ done /\ ~running /\ running' = TRUE /\ run_tag' = (run_tag + 1) % Tags
      /\ asked' = <<tile, asked[1], asked[2]>>
      /\ r_pingPong' = ~r_pingPong /\ w_pingPong' = ~w_pingPong
      /\ Bus!Run(ByUnit(tile.fetch[1], asked[2].send[1]), ByUnit(tile.fetch[2], asked[2].send[2]))
      /\ VReadClock(tile.fetch[2] # 0, TRUE, None)
      /\ VWriteClock(asked[2].send[2] # 0, TRUE, FALSE)
      /\ r_turn' = 0 /\ w_turn' = 0 /\ w_delay' = 3
  BY DEF Run, SwapHalves, Latency
<1>2. /\ asked'[1] = tile /\ asked'[2] = asked[1] /\ asked'[3] = asked[2]
      /\ IsTile(tile) /\ IsTile(asked[1]) /\ IsTile(asked[2])
  BY <1>1, StreamAssumption DEF UnitsTypeOK
<1>3. /\ tile.fetch[1] \in 0 .. HalfWords /\ tile.fetch[2] \in 0 .. HalfWords
      /\ asked[2].send[1] \in 0 .. HalfWords /\ asked[2].send[2] \in 0 .. HalfWords
      /\ asked[1].words \in 0 .. HalfWords /\ asked[2].words \in 0 .. HalfWords
      /\ HalfWords \in Nat \ {0}
  BY <1>2, TileFacts
<1>4. PICK f, s : f = tile.fetch /\ s = asked[2].send
  OBVIOUS
<1>5. /\ units!IInv' /\ Transfers(VRead, f)' /\ Transfers(VWrite, s)'
      /\ Seen(VRead, f)' = 0 /\ Seen(VWrite, s)' = 0
      /\ state'[VRead] \in {0, 1} /\ (state'[VRead] # 0 => f[2] # 0)
      /\ state'[VWrite] \in {0, 1}
  BY <1>1, <1>3, <1>4, BusStarts
<1>6. Fetches' = f /\ Sends' = s
  BY <1>2, <1>4 DEF Fetches, Sends
<1>7. BusInv' /\ Fetched' = 0 /\ Sent' = 0
  BY <1>5, <1>6 DEF BusInv, Transfers, Fetched, Sent, Seen
<1>8. /\ first_state' = "EMPTY" /\ second_state' = "EMPTY" /\ r_ram' = r_ram
      /\ r_gen_valid' = (f[2] # 0) /\ (f[2] # 0 => r_gen_addr' = 0)
      /\ FetchType'
      /\ {store_value_0', store_value_1'} \subseteq BOOLEAN
      /\ {r_ram_reg', r_ram_out', out0'} \subseteq TileWord \cup {None}
  <2>1. PICK starts \in BOOLEAN : starts = (tile.fetch[2] # 0)
    OBVIOUS
  <2>2. VReadClock(starts, TRUE, None)
    BY <1>1, <2>1
  <2>3. /\ first_state' = "EMPTY" /\ second_state' = "EMPTY" /\ r_ram' = r_ram
        /\ r_gen_valid' = starts /\ (starts => r_gen_addr' = 0)
        /\ FetchType'
        /\ {store_value_0', store_value_1'} \subseteq BOOLEAN
        /\ {r_ram_reg', r_ram_out', out0'} \subseteq TileWord \cup {None}
    BY <1>1, <2>2, ReadStarts
  <2>4. QED BY <1>4, <2>1, <2>3
<1>9. /\ IInv' /\ Held' = <<>> /\ w_ram' = w_ram
      /\ w_gen_valid' = (s[2] # 0) /\ (s[2] # 0 => w_gen_addr' = 0)
      /\ SendType'
  <2>1. PICK starts \in BOOLEAN : starts = (asked[2].send[2] # 0)
    OBVIOUS
  <2>2. VWriteClock(starts, TRUE, FALSE)
    BY <1>1, <2>1
  <2>3. /\ IInv' /\ Held' = <<>> /\ w_ram' = w_ram
        /\ w_gen_valid' = starts /\ (starts => w_gen_addr' = 0)
        /\ SendType'
    BY <1>1, <2>2, WriteStarts
  <2>4. QED BY <1>4, <2>1, <2>3
<1>10. /\ r_pingPong \in BOOLEAN /\ w_pingPong \in BOOLEAN /\ run_tag \in 0 .. Tags - 1
  BY DEF UnitsTypeOK
<1>11. /\ run_tag' \in 0 .. Tags - 1 /\ Before' = run_tag /\ BeforeThat' = Before
  BY <1>1, <1>10, TagsMove DEF Before, BeforeThat
<1>12. UnitsTypeOK'
  <2>1. \A i \in 1 .. 3 : IsTile(asked'[i])
    BY <1>1, <1>2
  <2>2. /\ running' \in BOOLEAN /\ r_pingPong' \in BOOLEAN /\ w_pingPong' \in BOOLEAN
        /\ {r_turn', w_turn'} \subseteq Nat /\ w_delay' \in 0 .. 3
    BY <1>1, <1>10
  <2>3. w_ram' \in [Place -> TileWord \cup {None}]
    BY <1>9 DEF UnitsTypeOK
  <2>4. QED BY <1>8, <1>9, <1>11, <2>1, <2>2, <2>3
        DEF UnitsTypeOK, FetchType, SendType, IsTile, Latency
<1>13. FetchInv'
  <2>1. Stored' = 0 /\ Places' = 0
    BY <1>7, <1>8 DEF Stored, Places
  <2>2. f[2] # 0 => r_gen_addr' = 0 % HalfWords
    BY <1>3, <1>8, Wrap
  <2>3. state'[VRead] # 0 => running' /\ r_gen_valid'
    <3>1. f[2] # 0 => r_gen_valid'
      BY <1>8
    <3>2. QED BY <1>1, <1>5, <3>1
  <2>4. running' /\ r_gen_valid' => r_gen_addr' = (Stored' + Places') % HalfWords
    <3>1. r_gen_valid' => f[2] # 0
      BY <1>8
    <3>2. Stored' + Places' = 0
      BY <2>1
    <3>3. QED BY <2>2, <3>1, <3>2
  <2>5. state'[VRead] # 2 /\ 0 .. Stored' - 1 = {}
    BY <1>5, <2>1
  <2>6. QED BY <1>8, <2>3, <2>4, <2>5 DEF FetchInv
<1>14. ComputeInv'
  <2>1. Elapsed' = 0
    BY <1>1 DEF Elapsed, Latency
  <2>2. ASSUME NEW i \in 0 .. asked[1].words - 1
        PROVE  r_ram'[<<~r_pingPong, i>>] = FetchedIn(run_tag, i)
    <3>1. Stored = asked[1].words
      <4>1. state[VRead] = 0
        BY <1>1 DEF done, Bus!doneDatabus
      <4>2. second_state # "DATA"
        BY <4>1 DEF FetchInv
      <4>3. Fetched = asked[1].words
        <5>1. PICK g : g = Fetches
          OBVIOUS
        <5>2. g[1] \in Nat /\ g[2] \in Nat /\ g[1] * g[2] = asked[1].words
          BY <1>2, <5>1, TileFacts DEF Fetches
        <5>3. units!IInv /\ Transfers(VRead, g) /\ VRead \in 0 .. 1
          BY <5>1 DEF BusInv, VRead
        <5>4. Seen(VRead, g) = g[1] * g[2]
          BY <4>1, <5>2, <5>3, SeenFacts
        <5>5. QED BY <5>1, <5>2, <5>4 DEF Fetched
      <4>4. QED BY <4>2, <4>3 DEF Stored
    <3>2. QED BY <1>8, <3>1 DEF FetchInv
  <2>3. QED BY <1>1, <1>2, <1>3, <1>11, <2>1, <2>2 DEF ComputeInv, FetchedIn
<1>15. SendInv'
  <2>1. ASSUME NEW i \in 0 .. asked[2].words - 1
        PROVE  w_ram'[<<w_pingPong, i>>] = FetchedIn(Before, i)
    <3>1. w_turn = asked[2].words
      BY <1>1 DEF done, doneStore
    <3>2. QED BY <1>9, <3>1 DEF ComputeInv
  <2>2. s[2] # 0 => w_gen_addr' = 0 % HalfWords
    BY <1>3, <1>9, Wrap
  <2>3. (~w_pingPong') = w_pingPong
    BY <1>1, <1>10
  <2>4. \A i \in 0 .. asked'[3].words - 1 : w_ram'[<<~w_pingPong', i>>] = FetchedIn(BeforeThat', i)
    BY <1>2, <1>11, <2>1, <2>3
  <2>5. Len(Held') = 0 /\ 1 .. Len(Held') = {}
    BY <1>9
  <2>6. w_gen_valid' => w_gen_addr' = (Sent' + Len(Held')) % HalfWords
    <3>1. w_gen_valid' => s[2] # 0
      BY <1>9
    <3>2. Sent' + Len(Held') = 0
      BY <1>7, <2>5
    <3>3. QED BY <2>2, <3>1, <3>2
  <2>7. QED BY <2>4, <2>5, <2>6 DEF SendInv, FetchedIn
<1>16. QED BY <1>1, <1>7, <1>9, <1>12, <1>13, <1>14, <1>15

LEMMA StreamStart == StreamInit => StreamIInv
<1> SUFFICES ASSUME StreamInit PROVE StreamIInv
  OBVIOUS
<1>1. HalfWords \in Nat \ {0} /\ Tags \in Nat \ {0}
  BY StreamAssumption
<1>2. /\ running = FALSE /\ run_tag = 0 /\ asked = <<NoTile, NoTile, NoTile>>
      /\ units!Init /\ Init
      /\ r_pingPong = FALSE /\ r_gen_valid \in BOOLEAN /\ r_gen_addr = 0
      /\ first_state = "EMPTY" /\ second_state = "EMPTY"
      /\ first_data = None /\ first_extra = None /\ second_data = None
      /\ r_ram = [p \in Place |-> None] /\ r_turn = 0
      /\ r_ram_reg = None /\ r_ram_out = None /\ out0 = None
      /\ store_value_0 = FALSE /\ store_value_1 = FALSE
      /\ w_pingPong = FALSE /\ w_gen_valid \in BOOLEAN /\ w_gen_addr = 0
      /\ w_ram = [p \in Place |-> None] /\ w_delay = 0 /\ w_turn = 0
  BY SameUnits DEF StreamInit, writer!JoinInit, writer!firstBuffer!Init, writer!secondBuffer!Init
<1>3. IsTile(NoTile)
  BY <1>1 DEF IsTile, NoTile
<1>4. asked[1] = NoTile /\ asked[2] = NoTile /\ asked[3] = NoTile
  BY <1>2
<1>5. NoTile.words = 0 /\ NoTile.fetch = <<0, 0>> /\ NoTile.send = <<0, 0>>
  BY DEF NoTile
<1>6. UnitsTypeOK
  <2>1. 0 \in 0 .. HalfWords - 1 /\ 0 \in 0 .. Tags - 1
    BY <1>1
  <2>2. \A i \in 1 .. 3 : IsTile(asked[i])
    BY <1>3, <1>4
  <2>3. {r_ram, w_ram} \subseteq [Place -> TileWord \cup {None}]
    BY <1>2
  <2>4. /\ {running, r_pingPong, r_gen_valid, w_pingPong, w_gen_valid, store_value_0, store_value_1}
             \subseteq BOOLEAN
        /\ run_tag \in 0 .. Tags - 1 /\ {r_gen_addr, w_gen_addr} \subseteq 0 .. HalfWords - 1
        /\ {r_turn, w_turn} \subseteq Nat /\ w_delay \in 0 .. Latency
    <3>1. {running, r_pingPong, r_gen_valid, w_pingPong, w_gen_valid, store_value_0, store_value_1}
            \subseteq BOOLEAN
      BY <1>2
    <3>2. run_tag \in 0 .. Tags - 1 /\ r_gen_addr \in 0 .. HalfWords - 1
          /\ w_gen_addr \in 0 .. HalfWords - 1
      BY <1>2, <2>1
    <3>3. {r_turn, w_turn} \subseteq Nat /\ w_delay \in 0 .. Latency
      BY <1>2 DEF Latency
    <3>4. QED BY <3>1, <3>2, <3>3
  <2>5. /\ {r_ram_reg, r_ram_out, out0} \subseteq TileWord \cup {None}
        /\ first_state \in {"EMPTY", "DATA", "EXTRA"} /\ second_state \in {"EMPTY", "DATA"}
        /\ {first_data, first_extra} \subseteq Place \cup {None}
        /\ second_data \in TileWord \cup {None}
    BY <1>2
  <2>6. QED BY <2>2, <2>3, <2>4, <2>5 DEF UnitsTypeOK
<1>7. /\ state[VRead] = 0 /\ state[VWrite] = 0 /\ count[VRead] = 0 /\ count[VWrite] = 0
      /\ len[VRead] = 0 /\ len[VWrite] = 0 /\ words[VRead] = 0 /\ words[VWrite] = 0
  BY <1>2, SameUnits DEF units!Init, VRead, VWrite
<1>8. BusInv
  <2>1. units!IInv
    BY <1>2, UnitsAssumed, units!Start
  <2>2. Transfers(VRead, Fetches) /\ Transfers(VWrite, Sends)
    BY <1>4, <1>5, <1>7 DEF Transfers, Fetches, Sends
  <2>3. QED BY <2>1, <2>2 DEF BusInv
<1>9. IInv
  BY <1>2, Start
<1>10. FetchInv
  <2>1. Stored = 0
    BY <1>2, <1>4, <1>5, <1>7 DEF Stored, Fetched, Seen, Fetches
  <2>2. QED BY <1>2, <1>7, <2>1 DEF FetchInv
<1>11. ComputeInv
  BY <1>2, <1>4, <1>5 DEF ComputeInv, Elapsed, Latency
<1>12. SendInv
  BY <1>2, <1>4, <1>5 DEF SendInv
<1>13. done
  BY <1>2, <1>4, <1>5, <1>7 DEF done, Bus!doneDatabus, doneOutput, doneStore, read_mem
<1>14. QED BY <1>6, <1>8, <1>9, <1>10, <1>11, <1>12, <1>13 DEF StreamIInv


LEMMA StreamInductive == StreamIInv /\ [StreamNext]_unitVars => StreamIInv'
<1> SUFFICES ASSUME StreamIInv, [StreamNext]_unitVars PROVE StreamIInv'
  OBVIOUS
<1>1. CASE StreamNext
  BY <1>1, ClockKeepsAll, RunKeepsAll DEF StreamNext
<1>2. CASE UNCHANGED unitVars
  <2>1. /\ UNCHANGED <<topVars, busVars, readVars, writeVars>>
    BY <1>2 DEF unitVars
  <2>2. UNCHANGED <<running, run_tag, asked>> /\ UNCHANGED busVars /\ UNCHANGED vars
    BY <2>1 DEF topVars, writeVars
  <2>3. UNCHANGED <<first_state, first_data, first_extra, second_state, second_data>>
    BY <2>1 DEF readVars, joinVars
  <2>4. /\ UNCHANGED <<r_pingPong, r_gen_valid, r_gen_addr, r_ram, r_turn, r_ram_reg, r_ram_out,
                        store_value_0, store_value_1, out0>>
        /\ UNCHANGED <<w_pingPong, w_gen_valid, w_gen_addr, w_ram, w_delay, w_turn>>
    BY <2>1 DEF readVars, writeVars
  <2>5. units!IInv'
    <3>1. UNCHANGED units!vars
      BY <2>2 DEF busVars, units!vars, units!unitVars, units!muxVars
    <3>2. QED BY <3>1, UnitsAssumed, units!Inductive DEF StreamIInv, BusInv
  <2>6. BusInv'
    BY <2>2, <2>5 DEF StreamIInv, BusInv, Transfers, Fetches, Sends, busVars
  <2>7. UnitsTypeOK'
    BY <2>2, <2>3, <2>4 DEF StreamIInv, UnitsTypeOK, IsTile, Latency
  <2>8. IInv'
    BY <2>2, Inductive DEF StreamIInv
  <2>9. Fetched' = Fetched /\ Sent' = Sent
    BY <2>2 DEF Fetched, Sent, Seen, Fetches, Sends, busVars
  <2>10. FetchInv'
    BY <2>2, <2>3, <2>4, <2>9
       DEF StreamIInv, FetchInv, Stored, Places, PlaceOf, FetchedIn, busVars
  <2>11. ComputeInv'
    BY <2>2, <2>4 DEF StreamIInv, ComputeInv, Elapsed, Latency, FetchedIn, Before
  <2>12. Held' = Held
    BY <2>2 DEF vars, Held, fifoLevel, level_o, high_occupancy, Word, Response
  <2>13. SendInv'
    BY <2>2, <2>4, <2>9, <2>12
       DEF StreamIInv, SendInv, SentAt, PlaceOf, Response, FetchedIn, BeforeThat
  <2>14. ~running' => done'
    BY <2>2, <2>4 DEF StreamIInv, done, Bus!doneDatabus, doneOutput, doneStore, read_mem, busVars
  <2>15. QED BY <2>6, <2>7, <2>8, <2>10, <2>11, <2>13, <2>14 DEF StreamIInv
<1>3. QED BY <1>1, <1>2

LEMMA AlwaysStreamIInv == StreamSpec => []StreamIInv
<1>1. StreamInit => StreamIInv BY StreamStart
<1>2. StreamIInv /\ [StreamNext]_unitVars => StreamIInv' BY StreamInductive
<1>3. QED BY <1>1, <1>2, PTL DEF StreamSpec

\* A VRead in a transfer has room for the word, whether it asked for it or not:
\* the join behind it never holds two (VRead.v:218, SuperAddress.v:319).
THEOREM RoomForEveryWord == StreamSpec => []WordsAlwaysTaken
<1>1. StreamIInv => WordsAlwaysTaken
  BY DEF StreamIInv, UnitsTypeOK, WordsAlwaysTaken, writer!secondBuffer!in_ready_o
<1>2. QED BY <1>1, AlwaysStreamIInv, PTL

\* Every word a VWrite sends is the one the VRead fetched at that place of the
\* same tile two runs before, for memories, tiles and transfers of every size
\* and whatever the stalls on the databus (VRead.v:236, VWrite.v:223).
THEOREM TilesPassThrough == StreamSpec => []SendsWhatWasFetched
<1>1. StreamIInv => SendsWhatWasFetched
  <2>1. SUFFICES ASSUME StreamIInv, state[VWrite] = 2, data_valid
                 PROVE  mem[read].data = FetchedIn(BeforeThat, Sent)
    BY DEF SendsWhatWasFetched, FetchedIn, BeforeThat, Sent, Sends
  <2>2. running /\ m_valid_o
    BY <2>1 DEF data_valid
  <2>3. Held # <<>> /\ Head(Held) = mem[read] /\ Held \in Seq(Entries)
    BY <2>1, <2>2, OldestIsShown, HeldFacts DEF StreamIInv
  <2>4. mem[read] = Held[1] /\ 1 \in 1 .. Len(Held)
    BY <2>3
  <2>5. /\ IsTile(asked[3]) /\ asked[3].words \in 0 .. HalfWords /\ HalfWords \in Nat \ {0}
        /\ w_pingPong \in BOOLEAN
    BY <2>1, TileFacts DEF StreamIInv, UnitsTypeOK
  <2>6. Sent \in 0 .. asked[3].words - 1
    <3>1. PICK s : s = Sends
      OBVIOUS
    <3>2. s[1] \in Nat /\ s[2] \in Nat /\ s[1] * s[2] = asked[3].words
      BY <2>5, <3>1, TileFacts DEF Sends
    <3>3. units!IInv /\ Transfers(VWrite, s) /\ VWrite \in 0 .. 1
      BY <2>1, <3>1 DEF StreamIInv, BusInv, VWrite
    <3>4. Seen(VWrite, s) \in Nat /\ Seen(VWrite, s) < s[1] * s[2]
      BY <2>1, <3>2, <3>3, SeenFacts
    <3>5. QED BY <2>5, <3>1, <3>2, <3>4 DEF Sent
  <2>7. PICK x \in 0 .. HalfWords - 1 : x = Sent
    BY <2>5, <2>6
  <2>8. Held[1] = Response(SentAt(x))
    <3>1. Held[1] = Response(SentAt(x + 1 - 1))
      BY <2>1, <2>2, <2>4, <2>7 DEF StreamIInv, SendInv
    <3>2. x + 1 - 1 = x
      OBVIOUS
    <3>3. QED BY <3>1, <3>2
  <2>9. (~w_pingPong) \in BOOLEAN /\ x \in Nat /\ x < HalfWords
    BY <2>5
  <2>10. PlaceOf(~w_pingPong, x) = <<~w_pingPong, x>> /\ <<~w_pingPong, x>> \in Place
    BY <2>9, PlaceFacts
  <2>11. w_ram[<<~w_pingPong, x>>] = FetchedIn(BeforeThat, x)
    BY <2>1, <2>6, <2>7 DEF StreamIInv, SendInv
  <2>12. SentAt(x) = [place |-> <<~w_pingPong, x>>, word |-> FetchedIn(BeforeThat, x)]
    BY <2>10, <2>11 DEF SentAt
  <2>13. w_ram[<<~w_pingPong, x>>] \in TileWord \cup {None}
    BY <2>1, <2>10 DEF StreamIInv, UnitsTypeOK
  <2>14. SentAt(x) \in SentAddresses
    BY <2>10, <2>11, <2>12, <2>13 DEF SentAddresses
  <2>15. Contents[SentAt(x)] = SentAt(x).word
    BY <2>14, StreamAssumption
  <2>16. SentAt(x).word = FetchedIn(BeforeThat, x)
    BY <2>12
  <2>17. QED BY <2>4, <2>7, <2>8, <2>15, <2>16 DEF Response
<1>2. QED BY <1>1, AlwaysStreamIInv, PTL
=============================================================================
