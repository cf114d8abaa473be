---------------------------- MODULE MemoryReader -----------------------------
(***************************************************************************)
(* hardware/src/MemoryReader.v: turns a stream of addresses into a stream   *)
(* of the words a memory holds there.  The memory answers two cycles after  *)
(* the address (versat_ram_2p.v), so reads are in flight when the consumer  *)
(* stalls; a SimpleFifo of COUNT 5 takes them in.  A new address is accepted*)
(* while the FIFO level is below 4: the reads in flight are not counted.    *)
(*                                                                          *)
(* SimpleFifo.v has no guard inside: w_en_i always writes and r_en_i always *)
(* advances, so the reader decides from level_o when it may assert them.    *)
(* Its full and empty flags, which the reader leaves open, are left out.    *)
(***************************************************************************)
EXTENDS Naturals, Sequences

CONSTANTS Addr,       \* addresses the producer may ask for
          None,       \* no address, no word
          Contents    \* what the memory holds

ASSUME ReaderAssumption ==
  /\ None \notin Addr
  /\ DOMAIN Contents = Addr
  /\ \A a \in Addr : None # [addr |-> a, data |-> Contents[a]]

\* The SimpleFifo of COUNT 5 has three address bits; the threshold of acceptance.
ADDR_W    == 3
Threshold == 4

VARIABLES mem, read, write,      \* the SimpleFifo
          mem_en_delayed,        \* the address accepted one cycle ago, or None
          mem_en_delayed_2,      \* ... two cycles ago, or None
          r_data, mem_data_i,    \* the memory's output registers
          accepted, delivered,   \* transfers of the last cycle
          wasReset               \* force_reset_i, or rst_i, of the last cycle

vars == <<mem, read, write, mem_en_delayed, mem_en_delayed_2, r_data, mem_data_i,
          accepted, delivered, wasReset>>

-----------------------------------------------------------------------------
(* SimpleFifo.                                                              *)

Slots == 2^ADDR_W
Slot  == 0 .. Slots - 1

\* {1'b1,write} - {1'b0,read}, ADDR_W + 1 bits wide: the top bit says whether
\* write >= read, the others are the words held, 0 again when all slots are.
high_occupancy == (Slots + write - read) % (2 * Slots)
level_o        == high_occupancy % Slots
r_data_o       == mem[read]

FifoReset ==
  /\ read' = 0
  /\ write' = 0
  /\ UNCHANGED mem

\* A clock edge with w_en_i = w_en, w_data_i = w_data, r_en_i = r_en.
FifoClock(w_en, w_data, r_en) ==
  /\ mem' = IF w_en THEN [mem EXCEPT ![write] = w_data] ELSE mem
  /\ write' = IF w_en THEN (write + 1) % Slots ELSE write
  /\ read' = IF r_en THEN (read + 1) % Slots ELSE read

-----------------------------------------------------------------------------
fifoLevel == level_o

s_ready_o == fifoLevel < Threshold
m_valid_o == fifoLevel > 0

\* A word of the stream: the address asked for and what was read there.
Response(a)  == [addr |-> a, data |-> Contents[a]]
Responses    == {Response(a) : a \in Addr}
AnyEntry     == [addr : Addr \cup {None}, data : {Contents[a] : a \in Addr} \cup {None}]

TypeOK ==
  /\ mem \in [Slot -> AnyEntry]
  /\ read \in Slot
  /\ write \in Slot
  /\ mem_en_delayed \in Addr \cup {None}
  /\ mem_en_delayed_2 \in Addr \cup {None}
  /\ r_data \in {Contents[a] : a \in Addr} \cup {None}
  /\ mem_data_i \in {Contents[a] : a \in Addr} \cup {None}
  /\ accepted \in Responses \cup {None}
  /\ delivered \in AnyEntry \cup {None}
  /\ wasReset \in BOOLEAN

Init ==
  /\ mem = [s \in Slot |-> [addr |-> None, data |-> None]]
  /\ read = 0
  /\ write = 0
  /\ mem_en_delayed = None
  /\ mem_en_delayed_2 = None
  /\ r_data = None
  /\ mem_data_i = None
  /\ accepted = None
  /\ delivered = None
  /\ wasReset = FALSE

\* loadMem: the address taken in this cycle, given the one offered.
Loaded(s_addr) == IF s_ready_o THEN s_addr ELSE None

\* The memory samples the offered address whether or not it is accepted.
MemoryClock(s_addr) ==
  /\ r_data' = IF s_addr # None THEN Contents[s_addr] ELSE r_data
  /\ mem_data_i' = r_data

Ports(s_addr, m_ready) ==
  /\ accepted' = IF Loaded(s_addr) # None THEN Response(s_addr) ELSE None
  /\ delivered' = IF m_valid_o /\ m_ready THEN mem[read] ELSE None
  /\ wasReset' = FALSE

\* Mutated: a read in flight is dropped when the FIFO cannot receive.
Clock_DropsInFlight(s_addr, m_ready) ==
  /\ FifoClock(mem_en_delayed_2 # None,
                    [addr |-> mem_en_delayed_2, data |-> mem_data_i],
                    m_valid_o /\ m_ready)
  /\ mem_en_delayed' = Loaded(s_addr)
  /\ mem_en_delayed_2' = Loaded(mem_en_delayed)
  /\ MemoryClock(s_addr)
  /\ Ports(s_addr, m_ready)

\* A clock edge: s_addr is offered (None when s_valid_i is low).
Clock(s_addr, m_ready) ==
  /\ FifoClock(mem_en_delayed_2 # None,
                    [addr |-> mem_en_delayed_2, data |-> mem_data_i],
                    m_valid_o /\ m_ready)
  /\ mem_en_delayed' = Loaded(s_addr)
  /\ mem_en_delayed_2' = mem_en_delayed
  /\ MemoryClock(s_addr)
  /\ Ports(s_addr, m_ready)

\* In a cycle with force_reset_i the FIFO's asynchronous reset holds its level at
\* 0: nothing is shown to the consumer, and an address that is offered is taken.
ResetPorts(s_addr) ==
  /\ accepted' = IF s_addr # None THEN Response(s_addr) ELSE None
  /\ delivered' = None
  /\ wasReset' = TRUE

\* A clock edge with force_reset_i (or rst_i): the FIFO and the reads in flight
\* go, the memory's registers do not.
ForceReset(s_addr) ==
  /\ FifoReset
  /\ mem_en_delayed' = None
  /\ mem_en_delayed_2' = None
  /\ MemoryClock(s_addr)
  /\ ResetPorts(s_addr)

Next == \E s_addr \in Addr \cup {None}, m_ready \in BOOLEAN :
          Clock(s_addr, m_ready) \/ ForceReset(s_addr)

Spec == Init /\ [][Next]_vars

-----------------------------------------------------------------------------
InFlight == (IF mem_en_delayed # None THEN 1 ELSE 0)
              + (IF mem_en_delayed_2 # None THEN 1 ELSE 0)

\* The words accepted and not yet delivered, oldest first.
Word(a) == IF a = None THEN <<>> ELSE <<Response(a)>>
Held == [i \in 1 .. fifoLevel |-> mem[(read + i - 1) % Slots]]
          \o Word(mem_en_delayed_2) \o Word(mem_en_delayed)

Stream == INSTANCE HandshakeFifo
            WITH Data <- Responses, NoData <- None, Capacity <- 6, queue <- Held

\* Every accepted address yields exactly one word, in order, and that word is
\* what the memory holds at that address: the two delays, the memory's latency
\* and the FIFO stay aligned through every stall and force-reset, and
\* no word is dropped but by a reset (MemoryReader.v:81-135).
ImplementsStream == Stream!FifoSpec

\* The threshold that ignores the reads in flight is safe: the FIFO and what is
\* still to be written into it never exceed its slots, so a write never lands
\* on a word that has not been read and the level never wraps to 0.
NoOverflow == fifoLevel + InFlight <= 6

\* The word behind mem_en_delayed_2 is the one the memory is showing.
MemoryAligned ==
  /\ mem_en_delayed_2 # None => mem_data_i = Contents[mem_en_delayed_2]
  /\ mem_en_delayed # None => r_data = Contents[mem_en_delayed]
=============================================================================
