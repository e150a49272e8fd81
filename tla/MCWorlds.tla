------------------------------ MODULE MCWorlds ------------------------------
(***************************************************************************)
(* Small worlds and small families of random streams for the serial        *)
(* engines.                                                                *)
(***************************************************************************)
EXTENDS Grid

CONSTANTS MCDirs, MCDraws

\* Raw draws, for RawRange = 24: Intn(., 8), Intn(., 2) and Intn(., 3) all
\* divide it.  MCDraws holds the pairs <<roll, wanderPick>> to explore.
RawDir(d) == 3 * d
RawDraw(p) == <<12 * p[1], 8 * p[2]>>

MCStreams ==
  {[i \in Ants |-> [n \in Positions |->
      IF n = 0 THEN RawDir(dirs[i]) ELSE RawDraw(draws[i, (n + 1) \div 2])[2 - (n % 2)]]] :
     dirs \in [Ants -> MCDirs], draws \in [Ants \X (1 .. Ticks) -> MCDraws]}

\* Wander straight is what an ant without information does anyway.
TurnDraws == {<<0, 1>>, <<0, 2>>, <<1, 0>>}
LeftDraws == {<<0, 1>>, <<1, 0>>}

\* Ants that never wander: the draws do not matter.
NoDraws == {<<0, 0>>}

\* Three cells by two: a wall in a corner, and in reach of the nest a cell
\* with one unit, and a cell with two piles of one unit each.
SmallNest  == <<0, 0>>
SmallWalls == <<[x |-> 2, y |-> 0, w |-> 1, h |-> 1]>>
SmallPiles == <<[at |-> <<1, 1>>, amount |-> 1], [at |-> <<0, 1>>, amount |-> 1],
                [at |-> <<0, 1>>, amount |-> 1]>>

\* The configuration may put food on the nest itself.
NestPiles == <<[at |-> <<0, 0>>, amount |-> 2]>>
NoWalls   == <<>>

\* A corridor that turns at its east end: an ant born facing north has six
\* closed cells to look at, and the unit beside the nest is wanted by all.
PocketWalls == <<[x |-> 0, y |-> 1, w |-> 2, h |-> 1]>>
PocketPiles == <<[at |-> <<1, 0>>, amount |-> 1], [at |-> <<2, 0>>, amount |-> 1],
                 [at |-> <<2, 0>>, amount |-> 1]>>
=============================================================================
