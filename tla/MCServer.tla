------------------------------ MODULE MCServer ------------------------------
(***************************************************************************)
(* One bench of one engine and one stream for Server.                      *)
(***************************************************************************)
EXTENDS Server

MCVariantOf == [e \in {"naive"} |-> "baseline"]
MCKnown == {"naive"}
MCAsked == {<<"naive">>}
=============================================================================
