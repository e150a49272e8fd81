----------------------------- MODULE MCVariants -----------------------------
(***************************************************************************)
(* The two engines that are simulations of their own, gradient and scent,  *)
(* on one world of four cells by three: from the nest one pile of one unit *)
(* is a step away, and two are as far as the smell reaches.                *)
(***************************************************************************)
EXTENDS Scent, MCWorlds

VARIABLE engine   \* the engine the run was started with

MCVars == <<gradientVars, engine>>

MCInit == engine \in {"gradient", "scent"} /\ GradientInit
MCNext ==
  \/ engine = "gradient" /\ GradientNext /\ UNCHANGED engine
  \/ engine = "scent" /\ ScentNext /\ UNCHANGED engine
MCSpec == MCInit /\ [][MCNext]_MCVars

\* A searching ant of the scent engine that does not wander turns down a step
\* towards the pile it smells only for a trail stronger by a quarter of
\* saturation (scent.go 13-16); one that smells no pile with food left decides as in
\* the gradient engine, from the tick after the last unit was taken (scent.go 16-17).
SmellLeadsTheSearcher == [][engine = "scent" => LedBySmell /\ FreeOfSpentPiles]_MCVars

WideNest  == <<1, 1>>
WideWalls == <<[x |-> 2, y |-> 1, w |-> 1, h |-> 1]>>
WidePiles == <<[at |-> <<3, 0>>, amount |-> 1], [at |-> <<0, 2>>, amount |-> 1],
               [at |-> <<3, 2>>, amount |-> 1]>>
=============================================================================
