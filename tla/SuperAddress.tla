----------------------------- MODULE SuperAddress -----------------------------
(***************************************************************************)
(* The address half of hardware/src/SuperAddress.v, "the source of truth     *)
(* for how the address gen interface generates the addresses": eight nested  *)
(* counters, two per level, that hand over one address per cycle in which    *)
(* the consumer is ready, after a delay.  It is configured here by the       *)
(* compiler's CompileAccess.  Addresses count words (the code shifts them by *)
(* OFFSET_W).                                                               *)
(***************************************************************************)
EXTENDS AddressAccess

CONSTANTS ADDR_W,      \* width of an address
          Accesses,    \* the accesses the compiler is given
          MaxDelay,    \* bound on the delay of a run
          Works        \* the <<work, workSize>> a run may have

\* The nests a generator visits: loops around another are entered, and of the eight
\* counters the last, which adds an increment where the others add a shift, is left.
Fits(a) ==
  /\ a.start \in Int
  /\ a.dutyDiv \in Nat \ {0}
  /\ a.loops \in Seq(Int \X Nat)
  /\ Len(Nest(a)) \in 1 .. 7
  /\ \A j \in 2 .. Len(Nest(a)) : SizeOf(Nest(a)[j]) > 0

ASSUME AddressAssumption ==
  /\ ADDR_W \in 1 .. 32
  /\ MaxDelay \in Nat
  /\ Works \subseteq Nat \X Nat
  /\ \A a \in Accesses : Fits(a)

VARIABLES
  access, works, ignored,           \* the configuration of the run
  delay_counter, valid_o, addr_o,
  base,                             \* addr2, addr3 and addr4
  counter,                          \* per, iter, per2, iter2 ... in this order
  ignore, work, doneAddress,
  taken                             \* history: addresses handed over in the run

configuration == <<access, works, ignored>>
regs == <<delay_counter, valid_o, addr_o, base, counter, ignore, work, doneAddress>>
addressVars == <<configuration, regs, taken>>

Counters == 1 .. 8
Level(j) == (j + 1) \div 2
Wrap(a) == a % 2^ADDR_W

NoAccess == [start |-> 0, loops |-> <<<<0, 0>>>>, dutyDiv |-> 1]

config == CompileAccess(access)

\* How often counter j runs, and whether this is its last time (perCond, iterCond).
Times(j) == IF j % 2 = 1 THEN config.per[Level(j)] ELSE config.iter[Level(j)]

AtEnd(j) == counter[j] + 1 = Times(j) \/ Times(j) = 0

AddressTypeOK ==
  /\ access \in Accesses \cup {NoAccess}
  /\ works \in Works \cup {<<0, 0>>}
  /\ delay_counter \in 0 .. MaxDelay
  /\ {valid_o, ignore, ignored, doneAddress} \subseteq BOOLEAN
  /\ addr_o \in 0 .. 2^ADDR_W - 1
  /\ base \in [2 .. 4 -> 0 .. 2^ADDR_W - 1]
  /\ \A j \in Counters :
       counter[j] = 0 \/ counter[j] \in 1 .. Times(j) - 1
  /\ work = 0 \/ work \in 1 .. works[2] - 1
  /\ taken \in Nat

AddressInit ==
  /\ access = NoAccess
  /\ works = <<0, 0>>
  /\ ignored = FALSE
  /\ delay_counter = 0
  /\ valid_o = FALSE
  /\ addr_o = 0
  /\ base = [k \in 2 .. 4 |-> 0]
  /\ counter = [j \in Counters |-> 0]
  /\ ignore \in BOOLEAN          \* not reset (SuperAddress.v:126-145)
  /\ work = 0
  /\ doneAddress = TRUE
  /\ taken = 0

-----------------------------------------------------------------------------
\* The counter that moves on: the first that has not come to its end.
Moving == {j \in Counters : ~AtEnd(j) /\ \A i \in 1 .. j - 1 : AtEnd(i)}

\* What it adds to the address; the last counter adds incr4 like the one before.
Amount(j) ==
  IF j % 2 = 1 \/ j = 8 THEN config.incr[Level(j)] ELSE config.shift[Level(j)]

\* Mutated: each level continues from the last address instead of its own start.
From_Last(j) == addr_o

From(j) == IF j <= 2 THEN addr_o ELSE base[Level(j)]

\* The innermost counter adds only within the duty.
Adds(j) == ~ignore /\ (j = 1 => counter[1] < config.duty)

MoveOn(j) ==
  /\ counter' = [i \in Counters |-> IF i < j THEN 0
                                    ELSE IF i = j THEN counter[i] + 1 ELSE counter[i]]
  /\ addr_o' = IF Adds(j) THEN Wrap(From(j) + Amount(j)) ELSE addr_o
  /\ base' = [k \in 2 .. 4 |-> IF Adds(j) /\ j > 2 /\ k <= Level(j)
                                 THEN Wrap(From(j) + Amount(j)) ELSE base[k]]
  /\ ignore' = IF j = 1 THEN ignore ELSE FALSE
  /\ UNCHANGED <<valid_o, doneAddress>>

End ==
  /\ doneAddress' = TRUE
  /\ valid_o' = FALSE
  /\ UNCHANGED <<addr_o, base, counter, ignore>>

\* Of workSize addresses that are handed over only the first work move on.
Works_i == works[1] = 0 \/ works[2] = 0 \/ work < works[1]

\* valid_o && ready_i
HandOver ==
  /\ valid_o
  /\ work' = IF work + 1 >= works[2] THEN 0 ELSE work + 1
  /\ \/ Works_i /\ \E j \in Moving : MoveOn(j)
     \/ Works_i /\ Moving = {} /\ End
     \/ ~Works_i /\ UNCHANGED <<addr_o, base, counter, ignore, valid_o, doneAddress>>
  /\ taken' = taken + 1
  /\ UNCHANGED delay_counter

\* Once the delay is over: an access without a period is done at once.
Begin(over, a) ==
  LET isZero == CompileAccess(a).per[1] = 0 IN
  /\ valid_o' = (over /\ ~isZero)
  /\ doneAddress' = (over /\ isZero)

\* Mutated: begins one cycle after the delay has run out.
Delayed_Late ==
  /\ delay_counter > 0
  /\ delay_counter' = delay_counter - 1
  /\ work' = 0
  /\ Begin(delay_counter = 0, access)
  /\ UNCHANGED <<addr_o, base, counter, ignore, taken>>

Delayed ==
  /\ delay_counter > 0
  /\ delay_counter' = delay_counter - 1
  /\ work' = 0
  /\ Begin(delay_counter = 1, access)
  /\ UNCHANGED <<addr_o, base, counter, ignore, taken>>

\* A clock edge during a run.
AddressClock(ready_i) ==
  /\ \/ Delayed
     \/ delay_counter = 0 /\ ready_i /\ HandOver
     \/ delay_counter = 0 /\ ~(valid_o /\ ready_i) /\ UNCHANGED <<regs, taken>>
  /\ UNCHANGED configuration

\* run_i: the unit is done, and shows its next configuration.
AddressRun(a, w, ignore_first_i, delay_i) ==
  /\ doneAddress
  /\ access' = a /\ works' = w /\ ignored' = ignore_first_i
  /\ delay_counter' = delay_i
  /\ addr_o' = Wrap(a.start)
  /\ base' = [k \in 2 .. 4 |-> Wrap(a.start)]
  /\ counter' = [j \in Counters |-> 0]
  /\ work' = 0
  /\ ignore' = ignore_first_i
  /\ Begin(delay_i = 0, a)
  /\ taken' = 0

\* ignore_first is used where a period is repeated.
MayIgnore(a) == CompileAccess(a).iter[1] >= 2

AddressNext ==
  \/ \E ready_i \in BOOLEAN : AddressClock(ready_i)
  \/ \E a \in Accesses, w \in Works, i \in BOOLEAN, d \in 0 .. MaxDelay :
       (i => MayIgnore(a)) /\ AddressRun(a, w, i, d)

\* The clock runs and the consumer is ready again and again.
AddressSpec == AddressInit /\ [][AddressNext]_addressVars /\ WF_addressVars(AddressClock(TRUE))

-----------------------------------------------------------------------------
\* store_o: the consumer stores in this cycle.
\* Mutated: one turn too many.
store_o_Late == valid_o /\ counter[1] <= config.duty /\ ~ignore

store_o == valid_o /\ counter[1] < config.duty /\ ~ignore

\* The points visited so far: all that were handed over but those in the rest
\* of a work group.
Visited ==
  IF works[1] = 0 \/ works[2] = 0 THEN taken
  ELSE LET rest == taken % works[2] IN
       IF works[1] >= works[2] THEN taken
       ELSE (taken \div works[2]) * works[1] + (IF rest < works[1] THEN rest ELSE works[1])

\* The point whose address is due: with ignore_first the first period stands
\* still and the second repeats its addresses, up to the end of its iterations.
Due ==
  LET per == config.per[1]
      row == per * config.iter[1]
  IN IF ~ignored \/ Visited >= row THEN Visited
     ELSE IF Visited < per THEN 0 ELSE Visited - per

\* "Software address gen code needs to match this logic" (SuperAddress.v:6): the
\* addresses are those of the loop nest the compiler compiled, one by one and in
\* order, under any stalls, and the run is done when all points are visited.
VisitsTheNest ==
  /\ valid_o => /\ Visited < Points(Nest(access))
                /\ addr_o = Wrap(access.start + Addresses(Nest(access), Due))
  /\ doneAddress => Visited = Points(Nest(access))

\* With a duty division every address is stored in exactly one of its turns, and
\* nothing is stored while the first period is ignored.
StoredOnce ==
  valid_o => (store_o <=> /\ Visited % access.dutyDiv = 0
                          /\ ignored => Visited >= config.per[1])

\* Every run is done in the end.
RunCompletes == ~doneAddress ~> doneAddress
=============================================================================
