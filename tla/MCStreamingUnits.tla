--------------------------- MODULE MCStreamingUnits ---------------------------
(***************************************************************************)
(* What a unit that moves data is made of, in three parts that share no      *)
(* register and of which a behaviour exercises one: the join of two         *)
(* streams, the databus with a writer and two readers, and the address      *)
(* generator with every nest of one or two loops with small sizes and       *)
(* terms, with duty divisions, an empty one, and nests of three to seven     *)
(* loops with terms that tell every counter apart.                          *)
(***************************************************************************)
EXTENDS JoinTwoHandshakes, Databus, SuperAddress

VARIABLE part    \* the part the behaviour is about

Loop == {-1, 3} \X {1, 2, 3}
Deep == << <<1, 2>>, <<5, 2>>, <<-3, 2>>, <<7, 3>>, <<11, 2>>, <<20, 2>>, <<13, 2>> >>

AccessOf(start, loops, dutyDiv) == [start |-> start, loops |-> loops, dutyDiv |-> dutyDiv]

SevenLoops ==
  {AccessOf(3, <<l>>, d) : l \in Loop, d \in 1 .. 3}
    \cup {AccessOf(3, <<l, m>>, d) : l \in Loop, m \in Loop, d \in 1 .. 2}
    \cup {AccessOf(0, SubSeq(Deep, 1, n), 1) : n \in 3 .. 7}
    \cup {AccessOf(2, SubSeq(Deep, 1, n), 2) : n \in 3 .. 6}
    \cup {AccessOf(1, << <<1, 0>> >>, 1)}

SomeWorks == {<<0, 0>>, <<1, 2>>, <<2, 3>>}

-----------------------------------------------------------------------------
PartsInit ==
  /\ part \in {"join", "databus", "address"}
  /\ JoinInit
  /\ Init
  /\ AddressInit
  /\ part # "address" => ~ignore

PartsNext ==
  /\ UNCHANGED part
  /\ \/ part = "join" /\ JoinNext /\ UNCHANGED <<vars, addressVars>>
     \/ part = "databus" /\ Next /\ UNCHANGED <<joinVars, addressVars>>
     \/ part = "address" /\ AddressNext /\ UNCHANGED <<joinVars, vars>>

\* The fairness of each part is its own.
PartsSpec ==
  /\ PartsInit
  /\ [][PartsNext]_<<part, joinVars, vars, addressVars>>
  /\ WF_joinVars(part = "join" /\ BothServed)
  /\ WF_vars(part = "databus" /\ Clock(Writers, TRUE, TRUE))
  /\ WF_addressVars(part = "address" /\ AddressClock(TRUE))

\* Pairs keep leaving the join (JoinTwoHandshakes.v:60).
PairsLeave == part = "join" => PairsKeepComing
=============================================================================
