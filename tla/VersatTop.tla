------------------------------- MODULE VersatTop -------------------------------
(***************************************************************************)
(* The control of a generated accelerator (versat_top_instance.tpl and the  *)
(* blocks codeGeneration.cpp emits into it) with the processor that runs    *)
(* the driver of iob-versat.tpl: starting runs and waiting for them,        *)
(* configuring the next run while one is on, resetting, and moving data     *)
(* with the DMA.  A step is a clock cycle; the processor makes at most one   *)
(* access in it.                                                            *)
(*                                                                         *)
(* A unit is at work from the cycle after run until it is done by itself.   *)
(* The hardware never makes a read wait, and a written start shows in done  *)
(* three cycles later: MinGap, the cycles from one access of the processor  *)
(* to its next, says how much the driver relies on its distance.            *)
(***************************************************************************)
EXTENDS SimpleDMA

-----------------------------------------------------------------------------
(* The module versat_configurations that codeGeneration.cpp emits: the      *)
(* registers between a configuration the program writes and the units.  A   *)
(* wire of stage READ passes one register when a run starts, COMPUTE two    *)
(* and WRITE three, so that the stages of a pipelined accelerator work for  *)
(* the same run.  One wire of each stage stands for all of them.            *)

CONSTANT Values      \* what a wire can be configured to

ASSUME ValuesAssumption == 0 \in Values

Stage == {"READ", "COMPUTE", "WRITE"}

VARIABLES shadow_configdata,   \* written by the program
          configdata,          \* seen by the units
          Compute_, Write_     \* the registers of the later stages

configVars == <<shadow_configdata, configdata, Compute_, Write_>>

ConfigurationsTypeOK ==
  /\ shadow_configdata \in [Stage -> Values]
  /\ configdata \in [Stage -> Values]
  /\ Compute_ \in [{"COMPUTE", "WRITE"} -> Values]
  /\ Write_ \in Values

ConfigurationsInit ==
  /\ shadow_configdata = [s \in Stage |-> 0]
  /\ configdata = [s \in Stage |-> 0]
  /\ Compute_ = [s \in {"COMPUTE", "WRITE"} |-> 0]
  /\ Write_ = 0

\* rst_i: hard and soft reset clear every stage.
ConfigurationsReset ==
  /\ shadow_configdata' = [s \in Stage |-> 0]
  /\ configdata' = [s \in Stage |-> 0]
  /\ Compute_' = [s \in {"COMPUTE", "WRITE"} |-> 0]
  /\ Write_' = 0

\* Mutated: the program's writes reach the units at once (no shadow register).
ConfigurationsClock_NoShadow(wire, value, change_config_pulse) ==
  /\ shadow_configdata' = IF wire \in Stage
                            THEN [shadow_configdata EXCEPT ![wire] = value]
                            ELSE shadow_configdata
  /\ configdata' = IF wire = "READ" THEN [configdata EXCEPT !["READ"] = value]
                   ELSE IF change_config_pulse
                     THEN [s \in Stage |-> IF s = "READ" THEN shadow_configdata[s] ELSE Compute_[s]]
                     ELSE configdata
  /\ Compute_' = IF change_config_pulse
                   THEN [s \in {"COMPUTE", "WRITE"} |->
                          IF s = "COMPUTE" THEN shadow_configdata[s] ELSE Write_]
                   ELSE Compute_
  /\ Write_' = IF change_config_pulse THEN shadow_configdata["WRITE"] ELSE Write_

\* A clock edge: the program writes value to wire (or to none), and
\* change_config_pulse moves every stage on by one register.
ConfigurationsClock(wire, value, change_config_pulse) ==
  /\ shadow_configdata' = IF wire \in Stage
                            THEN [shadow_configdata EXCEPT ![wire] = value]
                            ELSE shadow_configdata
  /\ configdata' = IF change_config_pulse
                     THEN [s \in Stage |-> IF s = "READ" THEN shadow_configdata[s] ELSE Compute_[s]]
                     ELSE configdata
  /\ Compute_' = IF change_config_pulse
                   THEN [s \in {"COMPUTE", "WRITE"} |->
                          IF s = "COMPUTE" THEN shadow_configdata[s] ELSE Write_]
                   ELSE Compute_
  /\ Write_' = IF change_config_pulse THEN shadow_configdata["WRITE"] ELSE Write_

-----------------------------------------------------------------------------
CONSTANTS Units,        \* the units of the accelerator
          MinGap,       \* least distance of two accesses, in cycles
          Copies,       \* the calls of VersatMemoryCopy the program makes
          memoryConfigDecisionBit   \* of an address: whether it is that of a mapped unit

\* A copy: to the accelerator or from it, the first bytes of both sides, where the one
\* inside the accelerator counts from its base, and how many bytes.
CopyCalls == [inside : {"dest", "data"}, dest : Nat, data : Nat, size : Nat \ {0}]

ASSUME VersatTopAssumption ==
  /\ MinGap \in Nat \ {0}
  /\ memoryConfigDecisionBit \in Nat
  /\ Copies \subseteq CopyCalls

MemoryMapped(address) == (address \div 2 ^ memoryConfigDecisionBit) % 2 = 1

VARIABLES
  startRunPulse, run, running,   \* versat_top_instance
  busy,                          \* units that are not done
  versat_rvalid, versat_rdata,   \* the answer to the processor's read
  call,                          \* what the driver is in the middle of
  awaiting,                      \* ... and whether it waits for a read
  copy,                          \* the copy asked for
  gap,                           \* cycles since the last access
  told,                          \* history: configurations at the last starts
  owed,                          \* history: starts minus runs
  arrived                        \* history: the words of the copy that crossed the
                                 \* joined bus, with where to and where from

topRegs == <<startRunPulse, run, running, busy, versat_rvalid, versat_rdata>>
driverVars == <<call, awaiting, copy, gap>>
vars == <<configVars, dmaVars, topRegs, driverVars, told, owed, arrived>>

Polling == {"EndAccelerator", "StartAccelerator", "DmaPoll"}
DmaRegisters == {"DmaInternalAddress", "DmaExternalAddress", "DmaTransferLength"}
Calls == {"idle", "start", "ResetAccelerator", "VersatLoadDelay", "DmaStart"}
           \cup Polling \cup DmaRegisters

\* How many starts ago the configuration of a run was written.
Depth == [s \in Stage |-> IF s = "READ" THEN 1 ELSE IF s = "COMPUTE" THEN 2 ELSE 3]

TypeOK ==
  /\ ConfigurationsTypeOK
  /\ DmaTypeOK
  /\ {startRunPulse, run, running, versat_rvalid, versat_rdata, awaiting} \subseteq BOOLEAN
  /\ busy \subseteq Units
  /\ call \in Calls
  /\ copy \in Copies \cup {<<>>}
  /\ gap \in 1 .. MinGap
  /\ told \in [Stage -> [1 .. 3 -> Values]]
  /\ owed \in {0, 1}
  /\ arrived \subseteq (0 .. 511) \X (0 .. 511)

NothingTold == [s \in Stage |-> [k \in 1 .. 3 |-> 0]]

Init ==
  /\ ConfigurationsInit
  /\ DmaInit
  /\ startRunPulse = FALSE
  /\ run = FALSE
  /\ running = FALSE
  /\ versat_rvalid = FALSE
  /\ versat_rdata = FALSE
  /\ awaiting = FALSE
  /\ busy = {}
  /\ call = "idle"
  /\ copy = <<>>
  /\ gap = MinGap
  /\ told = NothingTold
  /\ owed = 0
  /\ arrived = {}

-----------------------------------------------------------------------------
\* The signals of a cycle.
done == busy = {}
pre_run_pulse == done /\ startRunPulse

\* The accesses of the processor: what it does to a register, with which value.
NoAccess == [op |-> "none", register |-> "none", value |-> 0]
Read(register) == [op |-> "read", register |-> register, value |-> 0]
Write(register, value) == [op |-> "write", register |-> register, value |-> value]
StartRun  == Write("Control", 1)
SoftReset == Write("Control", 2)    \* 0x80000000
StartDma  == Write("DmaControl", 1)

Accesses ==
  {NoAccess, Read("Control"), Read("DmaControl"), StartRun, SoftReset, StartDma}
    \cup {Write(s, v) : s \in Stage, v \in Values}
    \cup {Write("DmaInternalAddress", c.dest) : c \in Copies}
    \cup {Write("DmaExternalAddress", c.data) : c \in Copies}
    \cup {Write("DmaTransferLength", c.size) : c \in Copies}

-----------------------------------------------------------------------------
\* The driver, a program that calls it in any order.  What each call does next:
Free == gap = MinGap

Between(access) ==
  /\ call = "idle"
  /\ \/ /\ access = NoAccess
        /\ call' \in {"idle", "StartAccelerator", "EndAccelerator", "ResetAccelerator"}
        /\ UNCHANGED <<copy, awaiting>>
     \/ /\ access = NoAccess
        /\ call' = "DmaInternalAddress"
        /\ copy' \in Copies
        /\ UNCHANGED awaiting
     \/ /\ Free /\ access.register \in Stage
        /\ UNCHANGED <<call, copy, awaiting>>

\* The loops of EndAccelerator, of the one in StartAccelerator and of the copy.
Ask(access) ==
  /\ call \in Polling /\ ~awaiting /\ Free
  /\ access = Read(IF call = "DmaPoll" THEN "DmaControl" ELSE "Control")
  /\ awaiting' = TRUE
  /\ UNCHANGED <<call, copy>>

\* Mutated: StartAccelerator does not wait for the run that is on.
Answer_Careless(access) ==
  /\ awaiting /\ access = NoAccess
  /\ awaiting' = ~versat_rvalid
  /\ call' = IF ~versat_rvalid THEN call
             ELSE IF call = "StartAccelerator" THEN "start"
             ELSE IF versat_rdata THEN "idle" ELSE call
  /\ copy' = IF call' = "idle" THEN <<>> ELSE copy

\* Mutated: one answer is enough, whatever it says.
Answer_Once(access) ==
  /\ awaiting /\ access = NoAccess
  /\ awaiting' = ~versat_rvalid
  /\ call' = IF ~versat_rvalid THEN call
             ELSE IF call = "StartAccelerator" THEN "start" ELSE "idle"
  /\ copy' = IF call' = "idle" THEN <<>> ELSE copy

Answer(access) ==
  /\ awaiting /\ access = NoAccess
  /\ awaiting' = ~versat_rvalid
  /\ call' = IF ~(versat_rvalid /\ versat_rdata) THEN call
             ELSE IF call = "StartAccelerator" THEN "start" ELSE "idle"
  /\ copy' = IF call' = "idle" THEN <<>> ELSE copy

\* The writes that end StartAccelerator and ResetAccelerator.
WriteControl(access) ==
  /\ Free
  /\ \/ call = "start" /\ access = StartRun /\ call' = "idle"
     \/ call = "ResetAccelerator" /\ access = SoftReset /\ call' = "VersatLoadDelay"
     \/ call = "VersatLoadDelay" /\ access.register = "COMPUTE" /\ call' = "idle"
  /\ UNCHANGED <<copy, awaiting>>

\* The accesses of VersatMemoryCopy.
SetUpCopy(access) ==
  /\ Free
  /\ \/ /\ call = "DmaInternalAddress" /\ call' = "DmaExternalAddress"
        /\ access = Write(call, copy.dest)
     \/ /\ call = "DmaExternalAddress" /\ call' = "DmaTransferLength"
        /\ access = Write(call, copy.data)
     \/ /\ call = "DmaTransferLength" /\ call' = "DmaStart"
        /\ access = Write(call, copy.size)
     \/ /\ call = "DmaStart" /\ call' = "DmaPoll"
        /\ access = StartDma
  /\ UNCHANGED <<copy, awaiting>>

Wait(access) == call # "idle" /\ ~awaiting /\ access = NoAccess /\ UNCHANGED <<call, copy, awaiting>>

DriverClock(access) ==
  /\ \/ Between(access) \/ Ask(access) \/ Answer(access)
     \/ WriteControl(access) \/ SetUpCopy(access) \/ Wait(access)
  /\ gap' = IF access # NoAccess THEN 1 ELSE IF gap < MinGap THEN gap + 1 ELSE gap

-----------------------------------------------------------------------------
\* The pulse lasts a cycle, whether a run can begin or not.
ControlWrite(access) == startRunPulse' = (access = StartRun)

\* Mutated: a read is not answered while a unit is at work.
ControlRead_Done(access, memoryMappedAddr) ==
  /\ versat_rvalid' = (access.op = "read" /\ ~memoryMappedAddr /\ done)
  /\ versat_rdata' = CASE access = Read("Control") -> done
                       [] access = Read("DmaControl") -> ~dma_running
                       [] OTHER -> FALSE

\* A read is answered in the next cycle, unless the address on the joined bus is
\* that of a memory mapped unit.
ControlRead(access, memoryMappedAddr) ==
  /\ versat_rvalid' = (access.op = "read" /\ ~memoryMappedAddr)
  /\ versat_rdata' = CASE access = Read("Control") -> done
                       [] access = Read("DmaControl") -> ~dma_running
                       [] OTHER -> FALSE

\* work are the units that are not done in the next cycle: any of them after run,
\* and then each until it is done.
RunClock(work) ==
  /\ run' = pre_run_pulse
  /\ running' = (run \/ (running /\ ~done))
  /\ busy' = IF run THEN work ELSE busy \cap work

\* The shadow configurations at the last three starts.
Tell(access) ==
  told' = IF access = StartRun
            THEN [s \in Stage |-> [k \in 1 .. 3 |->
                   IF k = 1 THEN shadow_configdata[s]
                   ELSE IF k <= Depth[s] THEN told[s][k - 1] ELSE 0]]
            ELSE told

\* A word of the DMA crosses the joined bus with the DMA's address.
Store(word) ==
  arrived' = IF call = "idle" THEN {}
             ELSE IF dma_ready(word) THEN arrived \cup {<<dma_address, m_databus_rdata>>}
             ELSE arrived

\* A clock edge without soft reset.
Clock(access, work, word) ==
  /\ access # SoftReset
  /\ DriverClock(access)
  /\ ControlWrite(access)
  /\ ControlRead(access, dma_ready(word) /\ MemoryMapped(dma_address))
  /\ RunClock(work)
  /\ ConfigurationsClock(access.register, access.value, pre_run_pulse)
  /\ DmaClock(access = StartDma, word)
  /\ DmaSetup(access.register, access.value)
  /\ Tell(access)
  /\ Store(word)
  /\ owed' = owed + (IF access = StartRun THEN 1 ELSE 0)
                  - (IF pre_run_pulse THEN 1 ELSE 0)

\* The write of a soft reset: rst_int clears all but run, running and the answer.
ResetClock ==
  /\ DriverClock(SoftReset)
  /\ startRunPulse' = FALSE
  /\ ControlRead(SoftReset, FALSE)
  /\ run' = pre_run_pulse
  /\ running' = (run \/ (running /\ ~done))
  /\ busy' = {}
  /\ ConfigurationsReset
  /\ DmaReset
  /\ told' = NothingTold
  /\ owed' = owed - (IF pre_run_pulse THEN 1 ELSE 0)
  /\ arrived' = {}

Next ==
  \/ \E access \in Accesses, work \in SUBSET Units, word \in BOOLEAN : Clock(access, work, word)
  \/ ResetClock

\* A cycle in which every unit is done and the driver goes on if it can.
Prompt ==
  \E access \in Accesses :
    /\ call \notin {"idle"} /\ ~awaiting /\ Free => access # NoAccess
    /\ Clock(access, {}, TRUE) \/ (access = SoftReset /\ ResetClock)

\* The clock runs, every unit is done in the end and the processor goes on.
Spec == Init /\ [][Next]_vars /\ WF_vars(Prompt)

-----------------------------------------------------------------------------
\* A start the program asked for is neither lost nor doubled: it waits for its
\* run only in the cycle the pulse lasts (iob-versat.tpl:75-78,
\* versat_top_instance.tpl:71), and a run nobody asked for does not happen.
StartsServed == owed = IF startRunPulse THEN 1 ELSE 0

\* "Ensure the accelerator as finished running" (versat_header.tpl:69): when
\* EndAccelerator returns no unit is at work and no run is about to begin, though
\* done is still up for three cycles after the write that starts a run.
EndMeansDone ==
  [][ (call = "EndAccelerator" /\ call' = "idle") => done /\ ~run /\ ~startRunPulse ]_vars

\* Every run works with what the program had written when it called
\* StartAccelerator: READ wires for this run, COMPUTE wires for the start before
\* and WRITE wires for the one before that, whatever it writes while the units
\* are at work (codeGeneration.cpp:1361-1426).
RunsAsTold ==
  run \/ ~done => \A s \in Stage : configdata[s] = told[s][Depth[s]]

\* VersatMemoryCopy returns when the words its registers name, all of them and no others,
\* have crossed the joined bus in their places (iob-versat.tpl:96-125, SimpleDMA.v:43-63):
\* not the words it was asked for, as a register keeps one byte (codeGeneration.cpp:2565-2588).
Crossing(c) == {<<Last32(c.dest) + 4 * i, Last32(c.data) + 4 * i>> : i \in 0 .. Words(Last24(c.size)) - 1}
CopyReturnsWhenSent ==
  [][ (call = "DmaPoll" /\ call' = "idle") => arrived = Crossing(copy) ]_vars

\* When a copy is about to return every word of it has been sent to its place of the mapped
\* units, or to memory, to which nothing of this part writes.
Returning(inside) == call = "DmaPoll" /\ awaiting /\ versat_rvalid /\ versat_rdata /\ copy.inside = inside
Delivered ==
  /\ copy.inside = "dest"
  /\ \A i \in 0 .. Words(copy.size) - 1 :
       <<copy.dest + 4 * i, copy.data + 4 * i>> \in arrived /\ MemoryMapped(copy.dest + 4 * i)

\* "Large memory transfers should be performed using the VersatMemoryCopy function, which can use
\* an internal DMA ... transfers between memory and the accelerator" (README.md:400): copies to the
\* accelerator deliver, or copies from it, or at least every copy returns.
CopiesWork ==
  \/ [](Returning("dest") => Delivered)
  \/ [](Returning("data") => Delivered)
  \/ call = "DmaPoll" ~> call = "idle"

\* A call that starts or awaits a run returns (iob-versat.tpl:65-90).
CallsReturn == call \in {"StartAccelerator", "EndAccelerator", "start"} ~> call = "idle"

-----------------------------------------------------------------------------
(* The copies of the model-checked instances.  The large unit is mapped at  *)
(* 2^20: nine times 2^16 bytes to it and eight from it, with memory from    *)
(* 2^28 on.  The small unit is mapped at 64, with memory at 2^28 and at     *)
(* 2^30: eight bytes to it and from it.                                     *)

Copied(inside, dest, data, size) == [inside |-> inside, dest |-> dest, data |-> data, size |-> size]
CopiesLarge == {Copied("dest", 1048576, 268435456, 589824), Copied("data", 268435456, 1048576, 8)}
CopiesSmall == {Copied("dest", 64, 268435456, 8), Copied("data", 1073741824, 64, 8)}
=============================================================================
