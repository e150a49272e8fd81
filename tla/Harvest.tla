------------------------------ MODULE Harvest ------------------------------
(***************************************************************************)
(* What a colony does with food, whatever the grid, the ants' moves and    *)
(* the engine: units go one at a time from the ground to an ant and from   *)
(* an ant to the nest, and never back.                                     *)
(***************************************************************************)
EXTENDS Naturals

CONSTANT Total   \* Config.TotalFood()

VARIABLES lying, carried, stored

vars == <<lying, carried, stored>>

Init == lying = Total /\ carried = 0 /\ stored = 0

PickUp ==
  /\ lying > 0
  /\ lying' = lying - 1 /\ carried' = carried + 1
  /\ UNCHANGED stored

DropOff ==
  /\ carried > 0
  /\ carried' = carried - 1 /\ stored' = stored + 1
  /\ UNCHANGED lying

Next == PickUp \/ DropOff

Spec == Init /\ [][Next]_vars
=============================================================================
