------------------------------- MODULE Databus -------------------------------
(***************************************************************************)
(* The databus of an accelerator: the units that move data (the databus     *)
(* half of SuperAddress.v with its CountNLoops, one per VRead or VWrite)    *)
(* around MuxNative.v, in front of the read and the write side of           *)
(* SimpleAXIToAXI.  A unit performs count transfers of len words per run.   *)
(*                                                                         *)
(* The two sides of SimpleAXIToAXI appear here through what their callers   *)
(* rely on: a transfer starts when a valid request is seen and hands over   *)
(* len words, the last one flagged.  SimpleAXIToAXIRead says when the code  *)
(* keeps that promise.                                                      *)
(***************************************************************************)
EXTENDS Naturals, FiniteSets

-----------------------------------------------------------------------------
(* MuxNative: shares one read and one write channel of the databus between  *)
(* N_SLAVES masters of the accelerator (the module calls its own ports      *)
(* slaves).  Each channel is granted on its own, to the highest index that  *)
(* asks for it, and released by the last word of the transfer.              *)

CONSTANT N_SLAVES

ASSUME SlavesAssumption == N_SLAVES \in Nat \ {0}

Slaves == 0 .. N_SLAVES - 1

VARIABLES w_running, w_slave,    \* the write channel and whom it serves
          r_running, r_slave     \* the read channel

muxVars == <<w_running, w_slave, r_running, r_slave>>

MuxTypeOK ==
  /\ w_running \in BOOLEAN
  /\ r_running \in BOOLEAN
  /\ w_slave \in Slaves
  /\ r_slave \in Slaves

MuxInit ==
  /\ w_running = FALSE
  /\ r_running = FALSE
  /\ w_slave = 0
  /\ r_slave = 0

\* The loop's last assignment wins: the highest index that asks.
Highest(S) == CHOOSE i \in S : \A j \in S : j <= i

\* m_rvalid_o and m_wvalid_o, given the ports that assert valid.
m_rvalid_o(valid) == r_running /\ r_slave \in valid
m_wvalid_o(valid) == w_running /\ w_slave \in valid

\* s_ready_o[i] and s_last_o[i], given the two channels' ready and last.
s_ready_o(i, wready, rready) ==
  \/ w_running /\ wready /\ w_slave = i
  \/ r_running /\ rready /\ r_slave = i

s_last_o(i, wlast, rlast) ==
  \/ w_running /\ wlast /\ w_slave = i
  \/ r_running /\ rlast /\ r_slave = i

\* Mutated: the channel is never released.
ReadGrant_Kept(valid, requests, rready, rlast) ==
  /\ r_running' = (r_running \/ requests # {})
  /\ r_slave' = IF r_running \/ requests = {} THEN r_slave ELSE Highest(requests)

\* The registers of one channel: requests are the ports that ask for it.
ReadGrant(valid, requests, rready, rlast) ==
  \/ /\ ~r_running /\ requests # {}
     /\ r_running' = TRUE
     /\ r_slave' = Highest(requests)
  \/ /\ ~r_running /\ requests = {}
     /\ UNCHANGED <<r_running, r_slave>>
  \/ /\ r_running
     /\ r_running' = ~(rlast /\ rready /\ m_rvalid_o(valid))
     /\ UNCHANGED r_slave

WriteGrant(valid, requests, wready, wlast) ==
  \/ /\ ~w_running /\ requests # {}
     /\ w_running' = TRUE
     /\ w_slave' = Highest(requests)
  \/ /\ ~w_running /\ requests = {}
     /\ UNCHANGED <<w_running, w_slave>>
  \/ /\ w_running
     /\ w_running' = ~(wlast /\ wready /\ m_wvalid_o(valid))
     /\ UNCHANGED w_slave

\* A clock edge: valid are the ports that assert s_valid_i, writing those whose
\* strobe is not zero.
MuxClock(valid, writing, wready, wlast, rready, rlast) ==
  /\ ReadGrant(valid, valid \ writing, rready, rlast)
  /\ WriteGrant(valid, valid \cap writing, wready, wlast)

-----------------------------------------------------------------------------
CONSTANTS Writers,    \* the ports of the VWrites; the others read
          MaxCount,   \* bound on the transfers of a unit in one run
          MaxLen      \* bound on the words of a transfer

ASSUME DatabusAssumption ==
  /\ Writers \subseteq Slaves
  /\ MaxCount \in Nat
  /\ MaxLen \in Nat \ {0}

Readers == Slaves \ Writers

VARIABLES state,           \* SuperAddress: 0 done, 1 check the count, 2 in transfer
          count,           \* CountNLoops: transfers left ...
          count_is_zero,   \* ... and its registered zero flag
          len,             \* databus_length of the run, in words
          rleft, wleft,    \* words the channel still has to hand over, 0 when idle
          words            \* words a unit saw since its last databus_last

unitVars == <<state, count, count_is_zero, len>>
vars == <<unitVars, rleft, wleft, words, muxVars>>

TypeOK ==
  /\ MuxTypeOK
  /\ state \in [Slaves -> 0 .. 2]
  /\ count \in [Slaves -> 0 .. MaxCount]
  /\ count_is_zero \in [Slaves -> BOOLEAN]
  /\ len \in [Slaves -> 0 .. MaxLen]
  /\ rleft \in 0 .. MaxLen
  /\ wleft \in 0 .. MaxLen
  /\ words \in [Slaves -> 0 .. MaxLen]

Init ==
  /\ MuxInit
  /\ state = [i \in Slaves |-> 0]
  /\ count = [i \in Slaves |-> 0]
  /\ count_is_zero = [i \in Slaves |-> FALSE]
  /\ len = [i \in Slaves |-> 0]
  /\ rleft = 0
  /\ wleft = 0
  /\ words = [i \in Slaves |-> 0]

doneDatabus(i) == state[i] = 0

\* databus_valid: a VWrite shows valid only while it has a word (hasData); a
\* VRead's buffer is always ready for the next word.
Valid(hasData) == {i \in Slaves : state[i] = 2 /\ (i \in Writers => i \in hasData)}

-----------------------------------------------------------------------------
\* The read side: rgo is the cycle in which the memory has a word.  It is handed
\* over whatever valid says, and last is up while the channel is idle.
rready(rgo) == rleft > 0 /\ rgo
\* Mutated: last is up a word early.
rlast_Early == rleft <= 2

rlast       == rleft <= 1

ReadSide(valid, rgo) ==
  \/ /\ rleft = 0
     /\ rleft' = IF m_rvalid_o(valid) THEN len[r_slave] ELSE 0
  \/ /\ rleft > 0
     /\ rleft' = IF rready(rgo) THEN rleft - 1 ELSE rleft

\* The write side takes a word only when one is offered.
wready(valid, wgo) == wleft > 0 /\ wgo /\ m_wvalid_o(valid)
wlast(valid, wgo)  == wready(valid, wgo) /\ wleft = 1

WriteSide(valid, wgo) ==
  \/ /\ wleft = 0
     /\ wleft' = IF m_wvalid_o(valid) THEN len[w_slave] ELSE 0
  \/ /\ wleft > 0
     /\ wleft' = IF wready(valid, wgo) THEN wleft - 1 ELSE wleft

-----------------------------------------------------------------------------
\* What the units see in a cycle.
Ready(i, valid, rgo, wgo) == s_ready_o(i, wready(valid, wgo), rready(rgo))
Last(i, valid, rgo, wgo)  == s_last_o(i, wlast(valid, wgo), rlast)

\* databus_valid && databus_ready && databus_last
Advance(i, valid, rgo, wgo) ==
  i \in valid /\ Ready(i, valid, rgo, wgo) /\ Last(i, valid, rgo, wgo)

UnitsClock(valid, rgo, wgo) ==
  /\ state' = [i \in Slaves |->
       CASE state[i] = 0 -> 0
         [] state[i] = 1 -> IF count_is_zero[i] THEN 0 ELSE 2
         [] state[i] = 2 -> IF Advance(i, valid, rgo, wgo) THEN 1 ELSE 2]
  /\ count' = [i \in Slaves |->
       IF Advance(i, valid, rgo, wgo) /\ count[i] # 0 THEN count[i] - 1 ELSE count[i]]
  /\ count_is_zero' = [i \in Slaves |->
       count_is_zero[i] \/ (Advance(i, valid, rgo, wgo) /\ count[i] = 1)]
  /\ UNCHANGED len
  /\ words' = [i \in Slaves |->
       IF ~Ready(i, valid, rgo, wgo) THEN words[i]
       ELSE IF Last(i, valid, rgo, wgo) THEN 0 ELSE words[i] + 1]

Clock(hasData, rgo, wgo) ==
  LET valid == Valid(hasData) IN
  /\ UnitsClock(valid, rgo, wgo)
  /\ ReadSide(valid, rgo)
  /\ WriteSide(valid, wgo)
  /\ MuxClock(valid, Writers, wready(valid, wgo), wlast(valid, wgo), rready(rgo), rlast)

\* The accelerator starts a run when every unit is done; the configuration of
\* the run, which may leave a unit out (count or length 0), becomes visible.
Run(counts, lens) ==
  /\ \A i \in Slaves : doneDatabus(i)
  /\ state' = [i \in Slaves |-> IF counts[i] # 0 /\ lens[i] # 0 THEN 1 ELSE 0]
  /\ count' = counts
  /\ count_is_zero' = [i \in Slaves |-> counts[i] = 0]
  /\ len' = lens
  /\ UNCHANGED words
  /\ ReadSide({}, FALSE)
  /\ WriteSide({}, FALSE)
  /\ MuxClock({}, Writers, FALSE, FALSE, FALSE, rlast)

Next ==
  \/ \E hasData \in SUBSET Writers, rgo, wgo \in BOOLEAN : Clock(hasData, rgo, wgo)
  \/ \E counts \in [Slaves -> 0 .. MaxCount], lens \in [Slaves -> 0 .. MaxLen] :
       Run(counts, lens)

\* The clock never stops, and a cycle in which the memory answers both channels
\* and every VWrite has its word comes again and again.
Spec == Init /\ [][Next]_vars /\ WF_vars(Clock(Writers, TRUE, TRUE))

-----------------------------------------------------------------------------
\* A unit is told databus_last exactly with the last word of the transfer it
\* asked for: no unit is cut short, and none receives or gives up a word that
\* belongs to another, however the requests overlap (MuxNative.v:98-124).
LastEndsTransfer ==
  \A hasData \in SUBSET Writers, rgo, wgo \in BOOLEAN, i \in Slaves :
    Ready(i, Valid(hasData), rgo, wgo) =>
      /\ state[i] = 2
      /\ Last(i, Valid(hasData), rgo, wgo) <=> words[i] + 1 = len[i]

\* A channel that is handing over words belongs to one unit, which is still in
\* the transfer that started it, and the words seen and the words to come make
\* up the transfer.
ChannelOwned ==
  /\ rleft > 0 => r_running /\ words[r_slave] + rleft = len[r_slave]
  /\ wleft > 0 => w_running /\ words[w_slave] + wleft = len[w_slave]

\* When all units report done the databus is at rest: nothing of one run is left
\* to disturb the next.
DoneMeansQuiet ==
  (\A i \in Slaves : doneDatabus(i)) =>
    ~r_running /\ ~w_running /\ rleft = 0 /\ wleft = 0

\* The fixed priority cannot starve a unit for ever, because every unit asks a
\* bounded number of times per run: each run ends (SuperAddress.v:316, 357).
RunEnds == \A i \in Slaves : (state[i] # 0) ~> doneDatabus(i)
=============================================================================
