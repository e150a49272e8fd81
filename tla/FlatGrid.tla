------------------------------ MODULE FlatGrid ------------------------------
(***************************************************************************)
(* The flatgrid engine (internal/engine/flatgrid): the reference engine    *)
(* with its maps keyed by "x,y" replaced by slices addressed by idx(x, y). *)
(* A slice is a function on Index; an address outside it, the panic of Go, *)
(* has no value here, so a run that forms one fails.                       *)
(***************************************************************************)
EXTENDS Grid, FiniteSets

CONSTANTS Every, Streams   \* as in Colony

ASSUME FlatRunAssumption ==
  /\ Every \in Nat
  /\ Streams \subseteq [Ants -> [Positions -> 0 .. RawRange - 1]]

VARIABLES
  ants, stream, drawn, foodLeft, collected, intents, phase, committed,
  t, ticksRun, cancelled, frames,                  \* as in Colony
  walls, food,                                     \* slices of Width * Height
  pheroFood, pheroHome, depFood, depHome, nextFood, nextHome

grids == <<pheroFood, pheroHome, depFood, depHome, nextFood, nextHome>>
larder == <<food, foodLeft, collected>>
loop == <<t, ticksRun, frames>>
vars == <<ants, stream, drawn, larder, grids, intents, phase, committed, loop, cancelled, walls>>

Index == 0 .. Width * Height - 1

Idx(c) == c[2] * Width + c[1]

ZeroSlice == [n \in Index |-> 0]

NewFlatWorld ==
  /\ stream \in Streams
  /\ drawn = [i \in Ants |-> 1]
  /\ ants = [i \in Ants |-> [pos |-> Nest, dir |-> Intn(stream[i][0], 8),
                             hasFood |-> FALSE, blocked |-> FALSE]]
  /\ walls = [n \in Index |->
       \E c \in Cells : Idx(c) = n /\ \E m \in DOMAIN Walls : Covers(Walls[m], c)]
  /\ food = [n \in Index |->
       MapThenSumSet(LAMBDA m : Piles[m].amount, {m \in DOMAIN Piles : Idx(Piles[m].at) = n})]
  /\ foodLeft = FoodTotal /\ collected = 0
  /\ pheroFood = ZeroSlice /\ pheroHome = ZeroSlice
  /\ depFood = ZeroSlice /\ depHome = ZeroSlice
  /\ nextFood = ZeroSlice /\ nextHome = ZeroSlice
  /\ committed = 0
  /\ phase = "loop" /\ t = 0 /\ ticksRun = 0 /\ cancelled = FALSE /\ frames = <<>>

FlatInit == NewFlatWorld /\ intents = <<>>

(***************************************************************************)
(* The loop of Run.                                                        *)
(***************************************************************************)
LoopHead ==
  /\ phase = "loop"
  /\ phase' = IF t < Ticks /\ ~cancelled THEN "sense" ELSE "final"
  /\ UNCHANGED <<ants, stream, drawn, larder, grids, intents, committed, loop, cancelled, walls>>

Frame(n, done) == [tick |-> n, done |-> done, walls |-> n = 0]

Observe ==
  /\ phase = "observe"
  /\ ticksRun' = ticksRun + 1
  /\ frames' = IF Every > 0 /\ t % Every = 0 THEN Append(frames, Frame(t, FALSE)) ELSE frames
  /\ t' = t + 1
  /\ phase' = "loop"
  /\ UNCHANGED <<ants, stream, drawn, larder, grids, intents, committed, cancelled, walls>>

Finish ==
  /\ phase = "final"
  /\ frames' = IF Every > 0 THEN Append(frames, Frame(ticksRun, TRUE)) ELSE frames
  /\ phase' = "returned"
  /\ UNCHANGED <<ants, stream, drawn, larder, grids, intents, committed, t, ticksRun,
                 cancelled, walls>>

Cancel ==
  /\ ~cancelled
  /\ cancelled' = TRUE
  /\ UNCHANGED <<ants, stream, drawn, larder, grids, intents, phase, committed, loop, walls>>

(***************************************************************************)
(* Phase A.  The bounds are checked on the coordinates, before idx.        *)
(***************************************************************************)
InBounds(c) == c[1] >= 0 /\ c[2] >= 0 /\ c[1] < Width /\ c[2] < Height

\* Mutation: the address is checked instead, so that a row runs into the next.
OpenAddress(c) == Idx(c) \in Index /\ ~walls[Idx(c)]
Open(c) == InBounds(c) /\ ~walls[Idx(c)]

FlatStep(a, d) ==
  IF Open(Ahead(a.pos, d))
  THEN [pos |-> Ahead(a.pos, d), dir |-> d, blocked |-> FALSE]
  ELSE Stay(a, d)

Cand(a, k) == Ahead(a.pos, Cone(a.dir)[k])
FlatScore(a, k) ==
  (IF a.hasFood THEN pheroHome ELSE pheroFood)[Idx(Cand(a, k))]
    + IF a.hasFood /\ Cheb(Cand(a, k)) < Cheb(a.pos) THEN NestBias ELSE 0

\* The loop over the cone keeps the first candidate of the highest score.
FlatBest(a, open) ==
  CHOOSE j \in open : \A k \in open :
    FlatScore(a, j) > FlatScore(a, k) \/ (FlatScore(a, j) = FlatScore(a, k) /\ j <= k)

FlatMove(i) ==
  LET a    == ants[i]
      roll == Intn(stream[i][drawn[i]], RandomDen)
      pick == Intn(stream[i][drawn[i] + 1], 3)
      open == {k \in 1 .. 3 : Open(Cand(a, k))}
  IN IF roll < RandomNum THEN FlatStep(a, Cone(a.dir)[pick + 1])
     ELSE IF open = {} THEN Stay(a, a.dir)
     ELSE FlatStep(a, Cone(a.dir)[FlatBest(a, open)])

Sense ==
  /\ phase = "sense"
  /\ intents' = [i \in Ants |-> FlatMove(i)]
  /\ drawn' = [i \in Ants |-> drawn[i] + 2]
  /\ phase' = "commit"
  /\ UNCHANGED <<ants, stream, larder, grids, committed, loop, cancelled, walls>>

(***************************************************************************)
(* Phase B.                                                                *)
(***************************************************************************)
\* Ant i holds what it decided and stands on the cell of that address.
CommitAnt(i) ==
  LET in   == intents[i]
      cell == Idx(in.pos)
      had  == ants[i].hasFood
      up   == ~had /\ food[cell] > 0
      down == had /\ in.pos = Nest
      has  == up \/ (had /\ ~down)
  IN /\ ants' = [ants EXCEPT ![i] =
           [pos |-> in.pos, dir |-> IF up \/ down THEN Opposite(in.dir) ELSE in.dir,
            hasFood |-> has, blocked |-> in.blocked]]
     /\ food' = IF up THEN [food EXCEPT ![cell] = @ - 1] ELSE food
     /\ foodLeft' = IF up THEN foodLeft - 1 ELSE foodLeft
     /\ collected' = IF down THEN collected + 1 ELSE collected
     /\ depFood' = IF has THEN [depFood EXCEPT ![cell] = AddSat(@, DepositFood)] ELSE depFood
     /\ depHome' = IF has THEN depHome ELSE [depHome EXCEPT ![cell] = AddSat(@, DepositHome)]

Commit ==
  /\ phase = "commit" /\ committed < AntCount
  /\ CommitAnt(committed)
  /\ committed' = committed + 1
  /\ UNCHANGED <<stream, drawn, pheroFood, pheroHome, nextFood, nextHome, intents, phase,
                 loop, cancelled, walls>>

(***************************************************************************)
(* Phase C.                                                                *)
(***************************************************************************)
\* Mutation: a level beyond the edge is looked up at its address.
LevelAtAddress(cur, dep, c) == IF Idx(c) \in Index THEN cur[Idx(c)] + dep[Idx(c)] ELSE 0
LevelAt(cur, dep, c) == IF InBounds(c) THEN cur[Idx(c)] + dep[Idx(c)] ELSE 0

Spread(cur, dep, x, y) ==
  LET v   == LevelAt(cur, dep, <<x, y>>)
      in  == LevelAt(cur, dep, <<x, y - 1>>) + LevelAt(cur, dep, <<x, y + 1>>)
             + LevelAt(cur, dep, <<x - 1, y>>) + LevelAt(cur, dep, <<x + 1, y>>)
      mix == v - Share(v, DiffNum, DiffDen) + Share(in, DiffNum, DiffDen) \div 4
      low == Share(mix, EvapNum, EvapDen)
  IN IF low > MaxLevel THEN MaxLevel ELSE low

\* Row by row, a zero is not written; the address of <<x, y>> is met once.
FlatWritten(cur, dep, next) ==
  [n \in Index |->
     LET level == Spread(cur, dep, n % Width, n \div Width)
     IN IF level # 0 THEN level ELSE next[n]]

Decay ==
  /\ phase = "commit" /\ committed = AntCount
  /\ pheroFood' = FlatWritten(pheroFood, depFood, nextFood)
  /\ pheroHome' = FlatWritten(pheroHome, depHome, nextHome)
  /\ depFood' = ZeroSlice /\ depHome' = ZeroSlice
  /\ nextFood' = ZeroSlice /\ nextHome' = ZeroSlice
  /\ intents' = <<>>
  /\ phase' = "observe" /\ committed' = 0
  /\ UNCHANGED <<ants, stream, drawn, larder, loop, cancelled, walls>>

Returned == phase = "returned" /\ UNCHANGED vars

FlatTick == LoopHead \/ Sense \/ Commit \/ Decay \/ Observe \/ Finish
FlatNext == FlatTick \/ Cancel \/ Returned

FlatSpec == FlatInit /\ [][FlatNext]_vars /\ WF_vars(FlatTick)
-----------------------------------------------------------------------------
(***************************************************************************)
(* Properties.                                                             *)
(***************************************************************************)
\* The slices keep their length and their element types, and every ant and
\* every intent is on the grid, so that no address leaves the slices.
FlatTypeOK ==
  /\ \A i \in Ants : ants[i].pos \in Cells
  /\ phase = "commit" => \A i \in Ants : intents[i].pos \in Cells
  /\ walls \in [Index -> BOOLEAN] /\ food \in [Index -> Nat]
  /\ \A g \in {pheroFood, pheroHome, depFood, depHome, nextFood, nextHome} :
       g \in [Index -> 0 .. MaxLevel]

\* A slice read cell by cell through idx: the map of the reference engine.
ByCell(slice) == [c \in Cells |-> slice[Idx(c)]]
=============================================================================
