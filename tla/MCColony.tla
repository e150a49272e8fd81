------------------------------ MODULE MCColony ------------------------------
(***************************************************************************)
(* Colony on the small worlds.                                             *)
(***************************************************************************)
EXTENDS Colony, MCWorlds
=============================================================================
