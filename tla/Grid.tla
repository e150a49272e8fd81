-------------------------------- MODULE Grid --------------------------------
(***************************************************************************)
(* The configured world of one simulation and the rules an ant and a cell  *)
(* follow in one tick: internal/config's Config, and the pure part of      *)
(* internal/engine/naive (newWorld, chooseMove, step, decayGrid).  Nothing *)
(* here has state: Colony and Parallel give these operators their World.   *)
(***************************************************************************)
EXTENDS Integers, Sequences, FiniteSetsExt

CONSTANTS
  Width, Height,        \* Config.Width, Config.Height
  Nest,                 \* Config.Nest, a cell <<x, y>>
  Walls,                \* Config.Walls, a sequence of [x, y, w, h]
  Piles,                \* Config.Food, a sequence of [at, amount]
  AntCount, Ticks,      \* Config.AntCount, Config.Ticks
  RandomNum, RandomDen, \* Config.Movement
  EvapNum, EvapDen, DiffNum, DiffDen, MaxLevel, DepositFood, DepositHome,
                        \* Config.Pheromone
  RawRange,             \* the raw draws of a stream are 0 .. RawRange - 1
  WordRange             \* the values of phase C's words: 2^64

Cells == (0 .. Width - 1) \X (0 .. Height - 1)
Ants  == 0 .. AntCount - 1
Dirs  == 0 .. 7

\* A run of Ticks ticks makes 1 + 2 * Ticks draws per ant.
Positions == 0 .. 2 * Ticks

\* What Config.Validate accepts, rule by rule.
ASSUME ConfigAssumption ==
  /\ Width \in Nat \ {0} /\ Height \in Nat \ {0}
  /\ Ticks \in Nat /\ AntCount \in Nat \ {0}
  /\ Nest \in Cells
  /\ EvapDen \in Nat \ {0} /\ EvapNum \in 0 .. EvapDen
  /\ DiffDen \in Nat \ {0} /\ DiffNum \in 0 .. DiffDen
  /\ MaxLevel \in Nat \ {0} /\ DepositFood \in Nat /\ DepositHome \in Nat
  /\ RandomDen \in Nat \ {0} /\ RandomNum \in 0 .. RandomDen
  /\ RawRange \in Nat \ {0} /\ WordRange \in Nat \ {0}

Covers(r, c) ==
  /\ c[1] \in r.x .. r.x + r.w - 1
  /\ c[2] \in r.y .. r.y + r.h - 1

\* newWorld marks every cell of every wall rectangle.
WallCells == {c \in Cells : \E n \in DOMAIN Walls : Covers(Walls[n], c)}

\* newWorld adds the piles up: two piles on one cell make one larger pile.
FoodAt(c) ==
  MapThenSumSet(LAMBDA n : Piles[n].amount, {n \in DOMAIN Piles : Piles[n].at = c})
FoodTotal == MapThenSumSet(LAMBDA n : Piles[n].amount, DOMAIN Piles)

ASSUME WorldAssumption ==
  /\ Nest \notin WallCells
  /\ Piles \in Seq([at : Cells, amount : Nat])
  /\ \A n \in DOMAIN Piles : Piles[n].at \in Cells \ WallCells
  /\ \A c \in Cells : FoodAt(c) \in Nat
  /\ FoodTotal \in Nat

\* The units of food that lie on the grid, each a cell and a height in its pile.
UnitsOf(pile) == UNION {{c} \X (1 .. pile[c]) : c \in Cells}

\* Every pile is on the grid, so its cells hold the total, unit by unit.
ASSUME TotalAssumption ==
  /\ \A c \in Cells : FoodAt(c) <= FoodTotal
  /\ \A c \in Cells : FoodAt(c) > 0 => \E n \in DOMAIN Piles : Piles[n].at = c
  /\ FoodTotal = Cardinality(UnitsOf([c \in Cells |-> FoodAt(c)]))

\* Intn(n) of a stream whose next accepted raw draw is x: Lemire's x*n / 2^32.
Intn(x, n) == (x * n) \div RawRange

(***************************************************************************)
(* Movement.  The scan order N, NE, E, SE, S, SW, W, NW is 0 .. 7.         *)
(***************************************************************************)
DirDX == [d \in Dirs |-> IF d \in 1 .. 3 THEN 1 ELSE IF d \in 5 .. 7 THEN -1 ELSE 0]
DirDY == [d \in Dirs |-> IF d \in {7, 0, 1} THEN -1 ELSE IF d \in 3 .. 5 THEN 1 ELSE 0]

Opposite(d) == (d + 4) % 8
Ahead(c, d) == <<c[1] + DirDX[d], c[2] + DirDY[d]>>
Passable(c) == c \in Cells \ WallCells

AbsDiff(a, b) == IF a < b THEN b - a ELSE a - b
Cheb(c) ==
  LET dx == AbsDiff(c[1], Nest[1])
      dy == AbsDiff(c[2], Nest[2])
  IN IF dx > dy THEN dx ELSE dy

NestBias == MaxLevel \div 4

\* The cone an ant looks at: straight ahead first, then left, then right.
Cone(d) == <<d, (d + 7) % 8, (d + 1) % 8>>

\* chooseMove trusts the stored heading.  Mutation: it turns a blocked ant
\* round once more, as it did before docs/journal/02-correction-blocked.md.
HeadingTurnedAgain(a) == IF a.blocked THEN Opposite(a.dir) ELSE a.dir
Heading(a) == a.dir

Stay(a, d) == [pos |-> a.pos, dir |-> Opposite(d), blocked |-> TRUE]

Step(a, d) ==
  IF Passable(Ahead(a.pos, d))
  THEN [pos |-> Ahead(a.pos, d), dir |-> d, blocked |-> FALSE]
  ELSE Stay(a, d)

Score(a, trail, c) ==
  trail[c] + IF a.hasFood /\ Cheb(c) < Cheb(a.pos) THEN NestBias ELSE 0

\* The candidates of the cone an ant can enter, and the best of them: the
\* highest score, the lowest place in the cone among equals.
Candidates(a) == {k \in 1 .. 3 : Passable(Ahead(a.pos, Cone(Heading(a))[k]))}
Better(a, trail, j, k) ==
  LET sj == Score(a, trail, Ahead(a.pos, Cone(Heading(a))[j]))
      sk == Score(a, trail, Ahead(a.pos, Cone(Heading(a))[k]))
  IN sj > sk \/ (sj = sk /\ j <= k)
Best(a, trail) ==
  CHOOSE j \in Candidates(a) : \A k \in Candidates(a) : Better(a, trail, j, k)

\* The intent of ant a, given its two draws and the two levels it may read.
ChooseMove(a, roll, pick, pheroFood, pheroHome) ==
  LET trail == IF a.hasFood THEN pheroHome ELSE pheroFood
  IN IF roll < RandomNum THEN Step(a, Cone(Heading(a))[pick + 1])
     ELSE IF Candidates(a) = {} THEN Stay(a, Heading(a))
     ELSE Step(a, Cone(Heading(a))[Best(a, trail)])

(***************************************************************************)
(* Pheromone.                                                              *)
(***************************************************************************)
\* Mutation: the deposit does not saturate.
AddUnclamped(a, b) == a + b
AddSat(a, b) == IF a + b > MaxLevel THEN MaxLevel ELSE a + b

Level(cur, dep, c) == IF c \in Cells THEN cur[c] + dep[c] ELSE 0

\* v * n / d on words: the product wraps.
Share(v, n, d) == ((v * n) % WordRange) \div d

\* What phase C computes for one cell, from the levels of the last tick only.
Decayed(cur, dep, c) ==
  LET v   == Level(cur, dep, c)
      in  == Level(cur, dep, Ahead(c, 0)) + Level(cur, dep, Ahead(c, 4))
             + Level(cur, dep, Ahead(c, 6)) + Level(cur, dep, Ahead(c, 2))
      mix == v - Share(v, DiffNum, DiffDen) + Share(in, DiffNum, DiffDen) \div 4
      low == Share(mix, EvapNum, EvapDen)
  IN IF low > MaxLevel THEN MaxLevel ELSE low
=============================================================================
