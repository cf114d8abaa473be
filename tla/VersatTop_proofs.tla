--------------------------- MODULE VersatTop_proofs ---------------------------
(***************************************************************************)
(* If the processor leaves three cycles from one access to the next, then,  *)
(* for any units, values and copies, no start is lost or doubled,     *)
(* EndAccelerator returns only when the accelerator has come to rest, and   *)
(* every run works with the configuration the program meant for it.         *)
(*                                                                         *)
(* The argument is one of distance.  In the cycle after the write of a      *)
(* start startRunPulse is up, in the next one run is, and only then can a    *)
(* unit be at work; the next access comes after both, so the done it reads  *)
(* is the done of that run.                                                 *)
(***************************************************************************)
EXTENDS VersatTop, TLAPS

\* The accelerator is at rest: nothing is at work and nothing is about to be.
AtRest == done /\ ~run /\ ~startRunPulse

\* The two cycles after the write of a start.
Distance ==
  /\ gap \in 1 .. MinGap
  /\ startRunPulse => gap = 1 /\ done /\ ~run /\ ~awaiting
  /\ run => gap = 2 /\ done /\ ~startRunPulse /\ ~awaiting

\* What the driver has learned from a read.
Learned ==
  /\ awaiting => call \in Polling
  /\ (awaiting /\ versat_rvalid /\ versat_rdata /\ call # "DmaPoll") => AtRest
  /\ call = "start" => AtRest /\ ~awaiting

\* The registers of the configuration against the starts: what follows a start
\* has moved on by one place, except in the cycle of the pulse.
Pipeline ==
  IF startRunPulse
    THEN /\ \A s \in Stage : shadow_configdata[s] = told[s][1]
         /\ Compute_["COMPUTE"] = told["COMPUTE"][2]
         /\ Compute_["WRITE"] = told["WRITE"][3]
         /\ Write_ = told["WRITE"][2]
    ELSE /\ configdata["READ"] = told["READ"][1]
         /\ configdata["COMPUTE"] = told["COMPUTE"][2]
         /\ configdata["WRITE"] = told["WRITE"][3]
         /\ Compute_["COMPUTE"] = told["COMPUTE"][1]
         /\ Compute_["WRITE"] = told["WRITE"][2]
         /\ Write_ = told["WRITE"][1]

ControlInv == Distance /\ Learned /\ StartsServed /\ Pipeline

-----------------------------------------------------------------------------
\* The accesses by what they mean for the control.
LEMMA AccessFacts ==
  ASSUME NEW access \in Accesses
  PROVE  /\ access.op = "read" => access \in {Read("Control"), Read("DmaControl")}
         /\ access.register \in Stage => access # StartRun /\ access.op = "write"
         /\ access # StartRun => ~(access.op = "write" /\ access.register = "Control" /\ access.value = 1)
BY DEF Accesses, StartRun, SoftReset, StartDma, NoAccess, Read, Write, Stage, DmaRegisters

LEMMA AccessNames ==
  /\ StartRun # NoAccess /\ SoftReset # NoAccess /\ SoftReset # StartRun
  /\ StartRun.register \notin Stage /\ SoftReset.register \notin Stage
  /\ StartRun.op = "write" /\ SoftReset.op = "write" /\ NoAccess.op = "none"
  /\ NoAccess.register \notin Stage
  /\ Read("Control") # Read("DmaControl")
BY DEF StartRun, SoftReset, NoAccess, Read, Write, Stage

\* What a driver step does to the control, by its access.
LEMMA DriverFacts ==
  ASSUME NEW access \in Accesses, DriverClock(access), Distance, Learned, MinGap >= 3
  PROVE  /\ access # NoAccess => gap = MinGap /\ gap' = 1
         /\ access = NoAccess => gap' = IF gap < MinGap THEN gap + 1 ELSE gap
         /\ access = StartRun => call = "start"
         /\ access = SoftReset => call = "ResetAccelerator" /\ call' = "VersatLoadDelay"
         /\ awaiting' => call' \in Polling
         /\ call' = "start" => /\ call = "start" \/ (call = "StartAccelerator" /\ awaiting /\ versat_rvalid /\ versat_rdata)
                               /\ access = NoAccess /\ ~awaiting'
         /\ awaiting' /\ ~awaiting => call' = call /\ access.op = "read"
         /\ access.op = "read" /\ call # "DmaPoll" => access = Read("Control")
         /\ awaiting => access = NoAccess
<1> USE VersatTopAssumption DEF Free
<1>1. \/ Between(access) \/ Ask(access) \/ Answer(access)
      \/ WriteControl(access) \/ SetUpCopy(access) \/ Wait(access)
  BY DEF DriverClock
<1>2. gap' = IF access # NoAccess THEN 1 ELSE IF gap < MinGap THEN gap + 1 ELSE gap
  BY DEF DriverClock
<1>3. CASE Between(access)
  BY <1>2, <1>3, AccessFacts, AccessNames DEF Between, Learned, Polling
<1>4. CASE Ask(access)
  BY <1>2, <1>4, AccessFacts, AccessNames DEF Ask, Polling, Read, NoAccess, StartRun, SoftReset, Write
<1>5. CASE Answer(access)
  BY <1>2, <1>5, AccessNames DEF Answer, Learned, Polling
<1>6. CASE WriteControl(access)
  BY <1>2, <1>6, AccessFacts, AccessNames DEF WriteControl, Learned, Polling, Stage
<1>7. CASE SetUpCopy(access)
  BY <1>2, <1>7, AccessFacts, AccessNames
     DEF SetUpCopy, Learned, Polling, Write, StartDma, StartRun, SoftReset, NoAccess
<1>8. CASE Wait(access)
  BY <1>2, <1>8, AccessNames DEF Wait, Learned, Polling
<1>9. QED BY <1>1, <1>3, <1>4, <1>5, <1>6, <1>7, <1>8

\* An accelerator at rest stays so until a start is written.
LEMMA RestLasts ==
  ASSUME NEW access \in Accesses, NEW work \in SUBSET Units, AtRest, access # StartRun,
         ControlWrite(access), RunClock(work)
  PROVE  AtRest'
BY DEF AtRest, done, ControlWrite, RunClock, pre_run_pulse

-----------------------------------------------------------------------------
\* The invariant through a clock edge, part by part.
LEMMA ClockKeepsDistance ==
  ASSUME ControlInv, MinGap >= 3, NEW access \in Accesses, NEW work \in SUBSET Units,
         NEW word \in BOOLEAN, Clock(access, work, word)
  PROVE  Distance'
<1> USE VersatTopAssumption
<1>1. DriverClock(access) /\ ControlWrite(access) /\ RunClock(work)
  BY DEF Clock
<1>2. gap' \in 1 .. MinGap
  BY <1>1, DriverFacts DEF ControlInv, Distance
<1>3. ASSUME startRunPulse' PROVE gap' = 1 /\ done' /\ ~run' /\ ~awaiting'
  <2>1. access = StartRun
    BY <1>1, <1>3 DEF ControlWrite
  <2>2. AtRest /\ ~awaiting /\ gap' = 1
    BY <1>1, <2>1, DriverFacts, AccessNames DEF ControlInv, Learned
  <2>3. ~awaiting'
    BY <1>1, <2>1, <2>2, DriverFacts, AccessNames DEF ControlInv
  <2>4. QED BY <1>1, <2>2, <2>3 DEF AtRest, done, RunClock, pre_run_pulse
<1>4. ASSUME run' PROVE gap' = 2 /\ done' /\ ~startRunPulse' /\ ~awaiting'
  <2>1. startRunPulse /\ done /\ ~run /\ gap = 1 /\ ~awaiting
    BY <1>1, <1>4 DEF RunClock, pre_run_pulse, ControlInv, Distance
  <2>2. access = NoAccess /\ gap' = 2
    BY <1>1, <2>1, DriverFacts DEF ControlInv
  <2>3. ~awaiting' /\ ~startRunPulse'
    BY <1>1, <2>1, <2>2, DriverFacts, AccessNames DEF ControlInv, ControlWrite
  <2>4. QED BY <1>1, <2>1, <2>2, <2>3 DEF RunClock, done
<1>5. QED BY <1>2, <1>3, <1>4 DEF Distance

LEMMA ClockKeepsLearned ==
  ASSUME ControlInv, MinGap >= 3, NEW access \in Accesses, NEW work \in SUBSET Units,
         NEW word \in BOOLEAN, Clock(access, work, word)
  PROVE  Learned'
<1> USE VersatTopAssumption
<1>1. /\ DriverClock(access) /\ ControlWrite(access) /\ RunClock(work)
      /\ ControlRead(access, dma_ready(word) /\ MemoryMapped(dma_address))
  BY DEF Clock
<1>2. awaiting' => call' \in Polling
  BY <1>1, DriverFacts DEF ControlInv
<1>3. ASSUME awaiting', versat_rvalid', versat_rdata', call' # "DmaPoll" PROVE AtRest'
  <2>1. access.op = "read"
    BY <1>1, <1>3 DEF ControlRead
  <2>2. ~awaiting
    BY <1>1, <2>1, DriverFacts, AccessNames DEF ControlInv
  <2>3. call' = call
    BY <1>1, <1>3, <2>2, DriverFacts DEF ControlInv
  <2>4. access = Read("Control") /\ gap = MinGap /\ access # StartRun
    BY <1>1, <1>3, <2>1, <2>3, DriverFacts, AccessNames DEF ControlInv
  <2>5. done
    BY <1>1, <1>3, <2>4, AccessNames DEF ControlRead
  <2>6. AtRest
    BY <2>4, <2>5 DEF AtRest, ControlInv, Distance
  <2>7. QED BY <1>1, <2>4, <2>6, RestLasts
<1>4. ASSUME call' = "start" PROVE AtRest' /\ ~awaiting'
  <2>1. /\ access = NoAccess /\ ~awaiting'
        /\ \/ call = "start"
           \/ call = "StartAccelerator" /\ awaiting /\ versat_rvalid /\ versat_rdata
    BY <1>1, <1>4, DriverFacts DEF ControlInv
  <2>2. AtRest
    BY <2>1 DEF ControlInv, Learned
  <2>3. QED BY <1>1, <2>1, <2>2, RestLasts, AccessNames
<1>5. QED BY <1>2, <1>3, <1>4 DEF Learned

LEMMA ClockServesStarts ==
  ASSUME ControlInv, MinGap >= 3, NEW access \in Accesses, NEW work \in SUBSET Units,
         NEW word \in BOOLEAN, Clock(access, work, word)
  PROVE  StartsServed'
<1>1. /\ DriverClock(access) /\ ControlWrite(access)
      /\ owed' = owed + (IF access = StartRun THEN 1 ELSE 0) - (IF pre_run_pulse THEN 1 ELSE 0)
  BY DEF Clock
<1>2. owed = IF startRunPulse THEN 1 ELSE 0
  BY DEF ControlInv, StartsServed
<1>3. access = StartRun => ~startRunPulse
  BY <1>1, DriverFacts DEF ControlInv, Learned, AtRest
<1>4. startRunPulse => done
  BY DEF ControlInv, Distance
<1>5. startRunPulse' <=> access = StartRun
  BY <1>1 DEF ControlWrite
<1>6. pre_run_pulse <=> startRunPulse
  BY <1>4 DEF pre_run_pulse
<1>7. CASE access = StartRun
  BY <1>1, <1>2, <1>3, <1>5, <1>6, <1>7 DEF StartsServed
<1>8. CASE access # StartRun
  BY <1>1, <1>2, <1>5, <1>6, <1>8 DEF StartsServed
<1>9. QED BY <1>7, <1>8

LEMMA ClockKeepsPipeline ==
  ASSUME ControlInv, MinGap >= 3, NEW access \in Accesses, NEW work \in SUBSET Units,
         NEW word \in BOOLEAN, Clock(access, work, word)
  PROVE  Pipeline'
<1> USE VersatTopAssumption
<1>1. /\ DriverClock(access) /\ ControlWrite(access) /\ Tell(access)
      /\ ConfigurationsClock(access.register, access.value, pre_run_pulse)
  BY DEF Clock
<1>2. CASE startRunPulse
  <2>1. access = NoAccess
    BY <1>1, <1>2, DriverFacts DEF ControlInv, Distance
  <2>2. pre_run_pulse /\ ~startRunPulse' /\ told' = told
    BY <1>1, <1>2, <2>1, AccessNames DEF pre_run_pulse, ControlInv, Distance, ControlWrite, Tell
  <2>3. QED BY <1>1, <1>2, <2>1, <2>2 DEF ControlInv, Pipeline, ConfigurationsClock, Stage
<1>3. CASE ~startRunPulse /\ access = StartRun
  <2>1. startRunPulse' /\ ~pre_run_pulse
    BY <1>1, <1>3 DEF ControlWrite, pre_run_pulse
  <2>2. UNCHANGED configVars
    BY <1>1, <1>3, <2>1, AccessNames DEF ConfigurationsClock, configVars
  <2>3. \A s \in Stage, k \in 1 .. 3 :
          told'[s][k] = IF k = 1 THEN shadow_configdata[s]
                        ELSE IF k <= Depth[s] THEN told[s][k - 1] ELSE 0
    BY <1>1, <1>3 DEF Tell
  <2>4. /\ \A s \in Stage : told'[s][1] = shadow_configdata[s]
        /\ told'["COMPUTE"][2] = told["COMPUTE"][1]
        /\ told'["WRITE"][2] = told["WRITE"][1]
        /\ told'["WRITE"][3] = told["WRITE"][2]
    BY <2>3 DEF Stage, Depth
  <2>5. QED BY <1>3, <2>1, <2>2, <2>4 DEF ControlInv, Pipeline, configVars
<1>4. CASE ~startRunPulse /\ access # StartRun
  <2>1. ~startRunPulse' /\ ~pre_run_pulse /\ told' = told
    BY <1>1, <1>4 DEF ControlWrite, pre_run_pulse, Tell
  <2>2. UNCHANGED <<configdata, Compute_, Write_>>
    BY <1>1, <2>1 DEF ConfigurationsClock
  <2>3. QED BY <1>4, <2>1, <2>2 DEF ControlInv, Pipeline
<1>5. QED BY <1>2, <1>3, <1>4

\* A soft reset is written at a distance from any start, and clears everything.
LEMMA ResetKeepsControlInv ==
  ASSUME ControlInv, MinGap >= 3, ResetClock
  PROVE  ControlInv'
<1> USE VersatTopAssumption
<1>1. DriverClock(SoftReset) /\ SoftReset \in Accesses
  BY DEF ResetClock, Accesses
<1>2. /\ gap = MinGap /\ gap' = 1
      /\ call = "ResetAccelerator" /\ call' = "VersatLoadDelay"
  BY <1>1, DriverFacts, AccessNames DEF ControlInv
<1>3. ~startRunPulse /\ ~run /\ ~awaiting
  BY <1>2 DEF ControlInv, Distance, Learned, Polling
<1>4. ~awaiting'
  BY <1>1, <1>2, <1>3, DriverFacts, AccessNames DEF ControlInv
<1>5. Distance' /\ Learned'
  <2>1. ~startRunPulse' /\ ~run'
    BY <1>3 DEF ResetClock, pre_run_pulse
  <2>2. gap' \in 1 .. MinGap
    BY <1>2
  <2>3. QED BY <1>2, <1>4, <2>1, <2>2 DEF Distance, Learned
<1>6. StartsServed'
  BY <1>3 DEF ResetClock, ControlInv, StartsServed, pre_run_pulse
<1>7. Pipeline'
  BY DEF ResetClock, ConfigurationsReset, Pipeline, NothingTold, Stage
<1>8. QED BY <1>5, <1>6, <1>7 DEF ControlInv

\* Nothing the invariant speaks of changes when nothing does.
LEMMA StutterKeepsControlInv ==
  ASSUME ControlInv, UNCHANGED vars
  PROVE  ControlInv'
BY DEF ControlInv, Distance, Learned, StartsServed, Pipeline, AtRest, done, vars, configVars,
       topRegs, driverVars

-----------------------------------------------------------------------------
\* The invariant holds for every number of units, values and copies.
THEOREM AlwaysControlInv ==
  ASSUME MinGap >= 3
  PROVE  Spec => []ControlInv
<1> USE VersatTopAssumption
<1>1. Init => ControlInv
  BY DEF Init, ConfigurationsInit, ControlInv, Distance, Learned, StartsServed, Pipeline,
         NothingTold, Stage
<1>2. ControlInv /\ [Next]_vars => ControlInv'
  <2> SUFFICES ASSUME ControlInv, [Next]_vars PROVE ControlInv'
    OBVIOUS
  <2>1. ASSUME NEW access \in Accesses, NEW work \in SUBSET Units, NEW word \in BOOLEAN,
               Clock(access, work, word)
        PROVE  ControlInv'
    BY <2>1, ClockKeepsDistance, ClockKeepsLearned, ClockServesStarts, ClockKeepsPipeline
       DEF ControlInv
  <2>2. CASE ResetClock
    BY <2>2, ResetKeepsControlInv
  <2>3. CASE UNCHANGED vars
    BY <2>3, StutterKeepsControlInv
  <2>4. QED BY <2>1, <2>2, <2>3 DEF Next
<1>3. QED BY <1>1, <1>2, PTL DEF Spec

\* No start is lost, none is run twice (versat_top_instance.tpl:71): for every
\* accelerator, provided that accesses are three cycles apart.
THEOREM NoStartLost ==
  ASSUME MinGap >= 3
  PROVE  Spec => []StartsServed
<1>1. ControlInv => StartsServed
  BY DEF ControlInv
<1>2. QED BY <1>1, AlwaysControlInv, PTL

\* Every run works with what was written before the starts its stages belong to
\* (codeGeneration.cpp:1361-1426), for every accelerator.
THEOREM RunsWorkAsTold ==
  ASSUME MinGap >= 3
  PROVE  Spec => []RunsAsTold
<1>1. ControlInv => RunsAsTold
  <2> SUFFICES ASSUME ControlInv, run \/ ~done, NEW s \in Stage
               PROVE  configdata[s] = told[s][Depth[s]]
    BY DEF RunsAsTold
  <2>1. ~startRunPulse
    BY DEF ControlInv, Distance
  <2>2. QED BY <2>1 DEF ControlInv, Pipeline, Stage, Depth
<1>2. QED BY <1>1, AlwaysControlInv, PTL

\* EndAccelerator returns from an accelerator at rest (iob-versat.tpl:65-73), for
\* every accelerator.
THEOREM WaitingMeansDone ==
  ASSUME MinGap >= 3
  PROVE  Spec => EndMeansDone
<1>1. ControlInv /\ [Next]_vars =>
        [ (call = "EndAccelerator" /\ call' = "idle") => done /\ ~run /\ ~startRunPulse ]_vars
  <2> SUFFICES ASSUME ControlInv, Next, call = "EndAccelerator", call' = "idle"
               PROVE  AtRest
    BY DEF AtRest
  <2>1. PICK access \in Accesses : DriverClock(access)
    <3>1. SoftReset \in Accesses
      BY DEF Accesses
    <3>2. QED BY <3>1 DEF Next, Clock, ResetClock
  <2>2. awaiting /\ versat_rvalid /\ versat_rdata
    BY <2>1 DEF DriverClock, Between, Ask, Answer, WriteControl, SetUpCopy, Wait
  <2>3. QED BY <2>2 DEF ControlInv, Learned
<1>2. QED BY <1>1, AlwaysControlInv, PTL DEF Spec, EndMeansDone

-----------------------------------------------------------------------------
(* A copy sends the words its registers name.  The argument is one of        *)
(* order, whatever the distance of the accesses: the registers are written  *)
(* one after the other while the DMA is still, the start is written once    *)
(* they are all there, and a poll that is answered with "done" was made     *)
(* when no word was left.                                                   *)

\* What the registers keep of a copy: where to, where from and how many words.
To(c)     == Last32(c.dest)
From(c)   == Last32(c.data)
Amount(c) == Words(Last24(c.size))

\* The registers hold what the call has written so far.
SetUp ==
  /\ awaiting => call \in Polling
  /\ call \in DmaRegisters \cup {"DmaStart", "DmaPoll"} => copy \in Copies
  /\ call \in {"DmaExternalAddress", "DmaTransferLength", "DmaStart", "DmaPoll"}
       => dma_internal_address_start = To(copy)
  /\ call \in {"DmaTransferLength", "DmaStart", "DmaPoll"} => dma_external_addr_start = From(copy)
  /\ call \in {"DmaStart", "DmaPoll"} => Words(dma_length) = Amount(copy)

\* The first n words of a copy, as its registers name them.
First(c, n) == {<<To(c) + 4 * i, From(c) + 4 * i>> : i \in 0 .. n - 1}

\* The transfer as the words that are left say it, and none outside of a copy.
Transfer ==
  /\ call # "DmaPoll" => ~dma_running
  /\ call \notin {"idle", "DmaPoll"} => arrived = {}
  /\ call = "DmaPoll" =>
       /\ dma_left \in 0 .. Amount(copy)
       /\ IF dma_left = 0 THEN ~dma_running ELSE dma_running
       /\ dma_address = To(copy) + 4 * (Amount(copy) - dma_left)
       /\ arrived = First(copy, Amount(copy) - dma_left)
       /\ awaiting /\ versat_rvalid /\ versat_rdata => dma_left = 0

CopyInv == SetUp /\ Transfer

\* The registers are of eight bits.
LEMMA LastIs ==
  ASSUME NEW value \in Nat
  PROVE  Last32(value) \in 0 .. 255 /\ Last24(value) \in 0 .. 255
<1>1. \A n \in Nat : n % 256 \in 0 .. 255
  OBVIOUS
<1>2. value \div 16777216 \in Nat /\ value \div 65536 \in Nat
  OBVIOUS
<1>3. QED BY <1>1, <1>2 DEF Last32, Last24

LEMMA CopyIs ==
  ASSUME NEW c \in Copies
  PROVE  /\ c.dest \in Nat /\ c.data \in Nat /\ c.size \in Nat
         /\ To(c) \in Nat /\ From(c) \in Nat /\ Amount(c) \in Nat \ {0}
<1>1. c.dest \in Nat /\ c.data \in Nat /\ c.size \in Nat
  BY VersatTopAssumption DEF CopyCalls
<1>2. \A n \in 0 .. 255 : Words(n) \in Nat \ {0}
  BY DEF Words
<1>3. To(c) \in 0 .. 255 /\ From(c) \in 0 .. 255 /\ Last24(c.size) \in 0 .. 255
  BY <1>1, LastIs DEF To, From
<1>4. Amount(c) \in Nat \ {0}
  BY <1>2, <1>3 DEF Amount
<1>5. QED BY <1>1, <1>3, <1>4

\* The first words, one more at a time.
LEMMA FirstGrows ==
  ASSUME NEW c \in Copies, NEW n \in Nat
  PROVE  /\ First(c, 0) = {}
         /\ First(c, n + 1) = First(c, n) \cup {<<To(c) + 4 * n, From(c) + 4 * n>>}
<1>1. 0 .. n + 1 - 1 = (0 .. n - 1) \cup {n} /\ 0 .. 0 - 1 = {}
  OBVIOUS
<1>2. QED BY <1>1 DEF First

\* The accesses to the registers of the DMA.
LEMMA DmaAccessNames ==
  ASSUME NEW access \in Accesses
  PROVE  /\ \A r \in DmaRegisters, n \in Nat :
              access = Write(r, n) => access.register = r /\ access.value = n /\ access # StartDma
         /\ access \in {NoAccess, Read("Control"), Read("DmaControl"), StartRun, SoftReset, StartDma}
              => access.register \notin DmaRegisters
         /\ access.register \in Stage => access.register \notin DmaRegisters /\ access # StartDma
         /\ access \in {NoAccess, Read("Control"), Read("DmaControl"), StartRun, SoftReset}
              => access # StartDma
         /\ access = Read("DmaControl") => access # Read("Control")
BY DEF Accesses, StartRun, SoftReset, StartDma, NoAccess, Read, Write, Stage, DmaRegisters

\* A driver step by what it does to a copy: it is outside of one, or begins one ...
Outside(access) ==
  /\ call \notin DmaRegisters \cup {"DmaStart", "DmaPoll"}
  /\ access # StartDma /\ access.register \notin DmaRegisters
  /\ call' \notin (DmaRegisters \cup {"DmaStart", "DmaPoll"}) \ {"DmaInternalAddress"}
  /\ call' = "DmaInternalAddress" => copy' \in Copies
  /\ awaiting' => call' \in Polling

\* ... writes a register and goes on to the next ...
WritesRegister(access) ==
  /\ \/ call = "DmaInternalAddress" /\ call' = "DmaExternalAddress" /\ access.value = copy.dest
     \/ call = "DmaExternalAddress" /\ call' = "DmaTransferLength" /\ access.value = copy.data
     \/ call = "DmaTransferLength" /\ call' = "DmaStart" /\ access.value = copy.size
  /\ access.register = call /\ access # StartDma
  /\ UNCHANGED <<copy, awaiting>> /\ ~awaiting

\* ... writes the start ...
WritesStart(access) ==
  /\ call = "DmaStart" /\ call' = "DmaPoll" /\ access = StartDma
  /\ access.register \notin DmaRegisters
  /\ UNCHANGED <<copy, awaiting>> /\ ~awaiting

\* ... waits for its turn ...
WaitsTurn(access) ==
  /\ call \in DmaRegisters \cup {"DmaStart"} /\ access = NoAccess
  /\ access.register \notin DmaRegisters /\ access # StartDma
  /\ UNCHANGED <<call, copy, awaiting>> /\ ~awaiting

\* ... or polls.
Polls(access) ==
  /\ call = "DmaPoll" /\ access \in {NoAccess, Read("DmaControl")}
  /\ access.register \notin DmaRegisters /\ access # StartDma
  /\ awaiting => access = NoAccess
  /\ IF awaiting /\ versat_rvalid /\ versat_rdata
       THEN call' = "idle" /\ ~awaiting'
       ELSE UNCHANGED <<call, copy>>

LEMMA DriverCopies ==
  ASSUME NEW access \in Accesses, DriverClock(access), SetUp
  PROVE  \/ Outside(access) \/ WritesRegister(access) \/ WritesStart(access)
         \/ WaitsTurn(access) \/ Polls(access)
<1>1. \/ Between(access) \/ Ask(access) \/ Answer(access)
      \/ WriteControl(access) \/ SetUpCopy(access) \/ Wait(access)
  BY DEF DriverClock
<1>2. CASE Between(access)
  BY <1>2, DmaAccessNames DEF Between, SetUp, Polling, DmaRegisters, Outside
<1>3. CASE Ask(access)
  BY <1>3, DmaAccessNames DEF Ask, SetUp, Polling, DmaRegisters, Outside, Polls
<1>4. CASE Answer(access)
  BY <1>4, DmaAccessNames DEF Answer, SetUp, Polling, DmaRegisters, Outside, Polls
<1>5. CASE WriteControl(access)
  BY <1>5, DmaAccessNames DEF WriteControl, SetUp, Polling, DmaRegisters, Stage, Outside
<1>6. CASE SetUpCopy(access)
  <2>1. ~awaiting /\ UNCHANGED <<copy, awaiting>>
    BY <1>6 DEF SetUpCopy, SetUp, Polling
  <2>2. call \in DmaRegisters => copy.dest \in Nat /\ copy.data \in Nat /\ copy.size \in Nat
    BY CopyIs DEF SetUp
  <2>3. QED BY <1>6, <2>1, <2>2, DmaAccessNames
            DEF SetUpCopy, DmaRegisters, WritesRegister, WritesStart
<1>7. CASE Wait(access)
  BY <1>7, DmaAccessNames DEF Wait, SetUp, Polling, DmaRegisters, Outside, WaitsTurn, Polls
<1>8. QED BY <1>1, <1>2, <1>3, <1>4, <1>5, <1>6, <1>7

\* The registers through an edge.
LEMMA ClockKeepsSetUp ==
  ASSUME NEW access \in Accesses, DriverClock(access), CopyInv,
         DmaSetup(access.register, access.value)
  PROVE  SetUp'
<1>1. SetUp
  BY DEF CopyInv
<1>2. CASE Outside(access)
  BY <1>2 DEF Outside, SetUp, DmaRegisters
<1>3. CASE WritesRegister(access)
  <2>1. /\ access.register = "DmaInternalAddress" /\ access.value = copy.dest
             => dma_internal_address_start' = To(copy)
        /\ access.register = "DmaExternalAddress" /\ access.value = copy.data
             => dma_external_addr_start' = From(copy)
        /\ access.register = "DmaTransferLength" /\ access.value = copy.size
             => Words(dma_length') = Amount(copy)
    BY DEF DmaSetup, To, From, Amount
  <2>2. /\ access.register # "DmaInternalAddress" => UNCHANGED dma_internal_address_start
        /\ access.register # "DmaExternalAddress" => UNCHANGED dma_external_addr_start
    BY DEF DmaSetup
  <2>3. QED BY <1>1, <1>3, <2>1, <2>2 DEF WritesRegister, SetUp, DmaRegisters
<1>4. ASSUME access.register \notin DmaRegisters
      PROVE  UNCHANGED dmaRegs
  BY <1>4 DEF DmaSetup, DmaRegisters, dmaRegs
<1>5. CASE WritesStart(access)
  BY <1>1, <1>4, <1>5 DEF WritesStart, SetUp, DmaRegisters, dmaRegs
<1>6. CASE WaitsTurn(access)
  BY <1>1, <1>4, <1>6 DEF WaitsTurn, SetUp, DmaRegisters, dmaRegs
<1>7. CASE Polls(access)
  BY <1>1, <1>4, <1>7 DEF Polls, SetUp, DmaRegisters, Polling, dmaRegs
<1>8. QED BY <1>1, <1>2, <1>3, <1>5, <1>6, <1>7, DriverCopies

\* The transfer through an edge, by the cases of the driver.
LEMMA ClockKeepsTransfer ==
  ASSUME CopyInv, NEW access \in Accesses, NEW work \in SUBSET Units, NEW word \in BOOLEAN,
         Clock(access, work, word)
  PROVE  Transfer'
<1>1. /\ DriverClock(access) /\ DmaSetup(access.register, access.value)
      /\ DmaClock(access = StartDma, word)
      /\ ControlRead(access, dma_ready(word) /\ MemoryMapped(dma_address))
      /\ Store(word)
  BY DEF Clock
<1>2. SetUp /\ Transfer
  BY DEF CopyInv
<1>3. ASSUME call # "DmaPoll" PROVE arrived' = {}
  BY <1>1, <1>2, <1>3 DEF Transfer, Store, dma_ready
<1>4. CASE call # "DmaPoll" /\ access # StartDma /\ call' # "DmaPoll"
  BY <1>1, <1>2, <1>3, <1>4 DEF Transfer, DmaClock
<1>5. CASE WritesStart(access)
  <2>1. /\ call' = "DmaPoll" /\ copy' = copy /\ ~awaiting' /\ copy \in Copies
        /\ dma_internal_address_start = To(copy) /\ Words(dma_length) = Amount(copy)
    BY <1>2, <1>5 DEF SetUp, WritesStart
  <2>2. dma_left' = Amount(copy) /\ dma_running' = TRUE /\ dma_address' = To(copy)
    BY <1>1, <1>2, <1>5, <2>1 DEF DmaClock, Transfer, WritesStart
  <2>3. Amount(copy) \in Nat \ {0} /\ To(copy) \in Nat /\ First(copy, 0) = {}
    BY <2>1, CopyIs, FirstGrows
  <2>4. arrived' = {}
    BY <1>3, <1>5, <2>1 DEF WritesStart
  <2>5. Amount(copy') - dma_left' = 0
    BY <2>1, <2>2, <2>3
  <2>6. arrived' = First(copy', Amount(copy') - dma_left')
    BY <2>1, <2>3, <2>4, <2>5
  <2>7. /\ dma_left' \in 0 .. Amount(copy') /\ dma_left' # 0
        /\ dma_address' = To(copy') + 4 * (Amount(copy') - dma_left')
    BY <2>1, <2>2, <2>3
  <2>8. QED BY <2>1, <2>2, <2>6, <2>7 DEF Transfer
<1>6. CASE Polls(access)
  <2>1. /\ access # StartDma /\ access \in {NoAccess, Read("DmaControl")}
        /\ copy \in Copies
        /\ dma_external_addr_start = From(copy) /\ Words(dma_length) = Amount(copy)
        /\ \/ awaiting /\ versat_rvalid /\ versat_rdata /\ call' = "idle"
           \/ call' = "DmaPoll" /\ copy' = copy
    BY <1>2, <1>6 DEF SetUp, Polls
  <2>2. Amount(copy) \in Nat \ {0} /\ To(copy) \in Nat /\ From(copy) \in Nat
    BY <2>1, CopyIs
  <2>3. /\ dma_left \in 0 .. Amount(copy)
        /\ IF dma_left = 0 THEN ~dma_running ELSE dma_running
        /\ dma_address = To(copy) + 4 * (Amount(copy) - dma_left)
        /\ arrived = First(copy, Amount(copy) - dma_left)
        /\ awaiting /\ versat_rvalid /\ versat_rdata => dma_left = 0
    BY <1>2, <1>6 DEF Transfer, Polls
  <2>4. call = "DmaPoll"
    BY <1>6 DEF Polls
  <2>5. versat_rvalid' /\ versat_rdata' => ~dma_running
    <3>1. versat_rvalid' => access = Read("DmaControl")
      BY <1>1, <2>1, AccessNames DEF ControlRead
    <3>2. access = Read("DmaControl") => versat_rdata' = ~dma_running
      BY <1>1, DmaAccessNames DEF ControlRead
    <3>3. QED BY <3>1, <3>2
  <2>6. CASE call' = "idle"
    <3>1. dma_running = FALSE
      BY <2>1, <2>3, <2>6
    <3>2. dma_running' = FALSE
      BY <1>1, <2>1, <3>1 DEF DmaClock
    <3>3. QED BY <2>6, <3>2 DEF Transfer
  <2>7. CASE call' = "DmaPoll" /\ copy' = copy /\ dma_ready(word)
    <3> DEFINE n == Amount(copy) - dma_left
    <3>1. dma_running /\ dma_left > 0
      BY <2>7 DEF dma_ready
    <3>2. /\ dma_left' = dma_left - 1 /\ dma_address' = dma_address + 4
          /\ dma_running' = ~m_databus_last
      BY <1>1, <2>7, <3>1 DEF DmaClock
    <3>3. /\ dma_left' \in 0 .. Amount(copy) /\ IF dma_left' = 0 THEN ~dma_running' ELSE dma_running'
          /\ n \in Nat /\ Amount(copy) - dma_left' = n + 1
      <4>1. IF dma_left = 1 THEN ~dma_running' ELSE dma_running'
        BY <3>2 DEF m_databus_last
      <4>2. dma_left \in 1 .. Amount(copy)
        BY <2>2, <2>3, <3>1
      <4>3. dma_left' \in 0 .. Amount(copy) /\ (dma_left' = 0 <=> dma_left = 1)
        BY <2>2, <3>2, <4>2
      <4>4. n \in Nat /\ Amount(copy) - dma_left' = n + 1
        BY <2>2, <3>2, <4>2
      <4>5. QED BY <4>1, <4>3, <4>4
    <3>4. dma_address' = To(copy) + 4 * (Amount(copy) - dma_left')
      BY <2>2, <2>3, <3>2, <3>3
    <3>5. arrived' = First(copy, n) \cup {<<To(copy) + 4 * n, From(copy) + 4 * n>>}
      BY <1>1, <2>1, <2>3, <2>4, <2>7 DEF Store, m_databus_rdata
    <3>6. arrived' = First(copy, Amount(copy) - dma_left')
      BY <2>1, <3>3, <3>5, FirstGrows
    <3>7. ~(versat_rvalid' /\ versat_rdata')
      BY <2>5, <3>1
    <3>8. QED BY <2>7, <3>3, <3>4, <3>6, <3>7 DEF Transfer
  <2>8. CASE call' = "DmaPoll" /\ copy' = copy /\ ~dma_ready(word)
    <3>1. UNCHANGED <<dma_address, dma_left, dma_running>>
      BY <1>1, <2>1, <2>8 DEF DmaClock
    <3>2. UNCHANGED arrived
      BY <1>1, <2>4, <2>8 DEF Store
    <3>3. versat_rvalid' /\ versat_rdata' => dma_left' = 0
      BY <2>3, <2>5, <3>1
    <3>4. QED BY <2>3, <2>8, <3>1, <3>2, <3>3 DEF Transfer
  <2>9. QED BY <2>1, <2>6, <2>7, <2>8
<1>7. CASE Outside(access) \/ WritesRegister(access) \/ WaitsTurn(access)
  BY <1>4, <1>7 DEF Outside, WritesRegister, WaitsTurn, DmaRegisters
<1>8. QED BY <1>1, <1>2, <1>5, <1>6, <1>7, DriverCopies

\* A soft reset comes from a call of its own, and stops the DMA.
LEMMA ResetKeepsCopyInv ==
  ASSUME CopyInv, ResetClock
  PROVE  CopyInv'
<1>1. DriverClock(SoftReset) /\ SoftReset \in Accesses /\ dma_running' = FALSE /\ arrived' = {}
  BY DEF ResetClock, DmaReset, Accesses
<1>2. SoftReset \notin {NoAccess, Read("DmaControl"), StartDma} /\ SoftReset.register \notin DmaRegisters
  BY DEF SoftReset, NoAccess, Read, StartDma, Write, DmaRegisters
<1>3. /\ call' \notin (DmaRegisters \cup {"DmaStart", "DmaPoll"}) \ {"DmaInternalAddress"}
      /\ call' = "DmaInternalAddress" => copy' \in Copies
      /\ awaiting' => call' \in Polling
  <2>1. Outside(SoftReset)
    BY <1>1, <1>2, DriverCopies
       DEF CopyInv, WritesRegister, WritesStart, WaitsTurn, Polls, DmaRegisters
  <2>2. QED BY <2>1 DEF Outside
<1>4. QED BY <1>1, <1>3 DEF CopyInv, SetUp, Transfer, DmaRegisters

THEOREM AlwaysCopyInv == Spec => []CopyInv
<1>1. Init => CopyInv
  BY DEF Init, DmaInit, CopyInv, SetUp, Transfer, DmaRegisters
<1>2. CopyInv /\ [Next]_vars => CopyInv'
  <2> SUFFICES ASSUME CopyInv, [Next]_vars PROVE CopyInv'
    OBVIOUS
  <2>1. ASSUME NEW access \in Accesses, NEW work \in SUBSET Units, NEW word \in BOOLEAN,
               Clock(access, work, word)
        PROVE  CopyInv'
    BY <2>1, ClockKeepsSetUp, ClockKeepsTransfer DEF Clock, CopyInv
  <2>2. CASE ResetClock
    BY <2>2, ResetKeepsCopyInv
  <2>3. CASE UNCHANGED vars
    BY <2>3 DEF CopyInv, SetUp, Transfer, vars, dmaVars, dmaRegs, topRegs, driverVars
  <2>4. QED BY <2>1, <2>2, <2>3 DEF Next
<1>3. QED BY <1>1, <1>2, PTL DEF Spec

\* VersatMemoryCopy returns when exactly the words its registers name have crossed the
\* joined bus (iob-versat.tpl:96-125, SimpleDMA.v:43-63), for every copy, to the
\* accelerator and from it, and whatever the distance of the accesses.
THEOREM CopiesSendWhatRegistersSay == Spec => CopyReturnsWhenSent
<1>1. CopyInv /\ [Next]_vars =>
        [ (call = "DmaPoll" /\ call' = "idle") => arrived = Crossing(copy) ]_vars
  <2> SUFFICES ASSUME CopyInv, Next, call = "DmaPoll", call' = "idle"
               PROVE  arrived = Crossing(copy)
    OBVIOUS
  <2>1. PICK access \in Accesses : DriverClock(access)
    <3>1. SoftReset \in Accesses
      BY DEF Accesses
    <3>2. QED BY <3>1 DEF Next, Clock, ResetClock
  <2>2. awaiting /\ versat_rvalid /\ versat_rdata
    BY <2>1, DriverCopies
       DEF CopyInv, DmaRegisters, Outside, WritesRegister, WritesStart, WaitsTurn, Polls
  <2>3. dma_left = 0 /\ arrived = First(copy, Amount(copy) - dma_left)
    BY <2>2 DEF CopyInv, Transfer
  <2>4. Amount(copy) \in Nat
    BY CopyIs DEF CopyInv, SetUp
  <2>5. First(copy, Amount(copy)) = Crossing(copy)
    BY DEF First, Crossing, To, From, Amount
  <2>6. QED BY <2>3, <2>4, <2>5
<1>2. QED BY <1>1, AlwaysCopyInv, PTL DEF Spec, CopyReturnsWhenSent
=============================================================================
