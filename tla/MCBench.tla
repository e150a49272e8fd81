------------------------------ MODULE MCBench ------------------------------
(***************************************************************************)
(* Two requests for Bench over two variants: two sound engines and a       *)
(* broken one of the baseline, one engine of another simulation, and a     *)
(* name nobody registered.  The second request asks for less: it is there  *)
(* for the slot, and follows the first through the same actions.           *)
(***************************************************************************)
EXTENDS Bench

CONSTANTS q1, q2

MCVariantOf ==
  [e \in {"naive", "parallel", "wrong", "scent", "unknown"} |->
     IF e = "scent" THEN "scent" ELSE "baseline"]
MCKnown == {"naive", "parallel", "wrong", "scent"}
MCAsked ==
  {<<"naive", "scent", "parallel">>, <<"unknown", "naive", "wrong", "parallel">>, <<"scent">>}

MCInit == Init /\ Len(engines[q1]) > 1 /\ Len(engines[q2]) = 1
MCSpec == MCInit /\ [][Next]_vars /\ \A q \in Requests : WF_vars(Handler(q))
=============================================================================
