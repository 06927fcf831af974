------------------------------ MODULE TraitMap ------------------------------
(***************************************************************************)
(* What the custom traits of a branding promise: a map from trait names to *)
(* values with at most MAX_TRAITS names, in no promised order.             *)
(***************************************************************************)
EXTENDS FiniteSets, Naturals

CONSTANTS Names, Values, Absent, MAX_TRAITS

VARIABLES
  map,    \* the value of each name, or Absent
  call    \* history: the last call, by name and arguments

Named == {n \in Names : map[n] # Absent}

Init ==
  /\ map = [n \in Names |-> Absent]
  /\ call = <<>>

\* A value is added or replaced; a new name must fit.
Set(n, v) ==
  /\ call' = <<"set", n, v>>
  /\ n \in Named \/ Cardinality(Named) < MAX_TRAITS
  /\ map' = [map EXCEPT ![n] = v]

\* Exactly the named trait goes away.
Remove(n) ==
  /\ call' = <<"remove", n>>
  /\ n \in Named
  /\ map' = [map EXCEPT ![n] = Absent]

Next == \E n \in Names : Remove(n) \/ \E v \in Values : Set(n, v)

Spec == Init /\ [][Next]_<<map, call>>
=============================================================================
