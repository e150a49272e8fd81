------------------------------- MODULE Colony -------------------------------
(***************************************************************************)
(* One Run of the naive engine (internal/engine/naive): the World, the     *)
(* three phases of a tick and the loop around them.  Sense is one step: it *)
(* reads the world and writes only intents and streams.  Commit is one     *)
(* step per ant in ascending index, because its outcome depends on that    *)
(* order.  Decay is one step.  The context may be cancelled at any time;   *)
(* the loop notices between two ticks.                                     *)
(***************************************************************************)
EXTENDS Grid, FiniteSets

CONSTANTS
  Every,    \* the observer's interval, 0 when the run is headless
  Streams   \* the random streams of the colony: a set of [Ants -> draws]

ASSUME RunAssumption ==
  /\ Every \in Nat
  /\ Streams \subseteq [Ants -> [Positions -> 0 .. RawRange - 1]]

VARIABLES
  ants,                  \* World.Ants
  stream, drawn,         \* each ant's Rng: its stream and its position in it
  food, foodLeft, collected,
  pheroFood, pheroHome, depFood, depHome, nextFood, nextHome,
  intents,               \* World.intents, <<>> outside phase B
  phase,                 \* where Run is
  committed,             \* phase B: the ants already committed are 0 .. committed - 1
  t, ticksRun,           \* the loop variable and the ticks completed
  cancelled,             \* ctx.Err() # nil
  frames                 \* what OnTick was called with

grids == <<pheroFood, pheroHome, depFood, depHome, nextFood, nextHome>>
larder == <<food, foodLeft, collected>>
loop == <<t, ticksRun, frames>>
vars == <<ants, stream, drawn, larder, grids, intents, phase, committed, loop, cancelled>>

Zero == [c \in Cells |-> 0]

NewWorld ==
  /\ stream \in Streams
  /\ drawn = [i \in Ants |-> 1]
  /\ ants = [i \in Ants |-> [pos |-> Nest, dir |-> Intn(stream[i][0], 8),
                             hasFood |-> FALSE, blocked |-> FALSE]]
  /\ food = [c \in Cells |-> FoodAt(c)]
  /\ foodLeft = FoodTotal
  /\ collected = 0
  /\ pheroFood = Zero /\ pheroHome = Zero
  /\ depFood = Zero /\ depHome = Zero
  /\ nextFood = Zero /\ nextHome = Zero

Init ==
  /\ NewWorld
  /\ intents = <<>> /\ committed = 0
  /\ phase = "loop" /\ t = 0 /\ ticksRun = 0
  /\ cancelled = FALSE
  /\ frames = <<>>

(***************************************************************************)
(* The loop of Run.                                                        *)
(***************************************************************************)
\* Mutation: the observer is called at the end of each interval.
DueAtEnd(n) == Every > 0 /\ (n + 1) % Every = 0
Due(n) == Every > 0 /\ n % Every = 0

Frame(n, done) == [tick |-> n, done |-> done, walls |-> n = 0]

\* for t < cfg.Ticks, unless ctx.Err() # nil
LoopHead ==
  /\ phase = "loop"
  /\ phase' = IF t < Ticks /\ ~cancelled THEN "sense" ELSE "final"
  /\ UNCHANGED <<ants, stream, drawn, larder, grids, intents, committed, loop, cancelled>>

\* After tick(): count it, show it to the observer, go round.
Observe ==
  /\ phase = "observe"
  /\ ticksRun' = ticksRun + 1
  /\ frames' = IF Due(t) THEN Append(frames, Frame(t, FALSE)) ELSE frames
  /\ t' = t + 1
  /\ phase' = "loop"
  /\ UNCHANGED <<ants, stream, drawn, larder, grids, intents, committed, cancelled>>

\* The last frame, then the Result is folded from the world as it stands.
Finish ==
  /\ phase = "final"
  /\ frames' = IF Every > 0 THEN Append(frames, Frame(ticksRun, TRUE)) ELSE frames
  /\ phase' = "returned"
  /\ UNCHANGED <<ants, stream, drawn, larder, grids, intents, committed, t, ticksRun, cancelled>>

Cancel ==
  /\ ~cancelled
  /\ cancelled' = TRUE
  /\ UNCHANGED <<ants, stream, drawn, larder, grids, intents, phase, committed, loop>>

(***************************************************************************)
(* Phase A: every ant draws twice, whatever it then does with the draws.   *)
(***************************************************************************)
Intent(i) ==
  LET roll == Intn(stream[i][drawn[i]], RandomDen)
      pick == Intn(stream[i][drawn[i] + 1], 3)
  IN ChooseMove(ants[i], roll, pick, pheroFood, pheroHome)

Sense ==
  /\ phase = "sense"
  /\ intents' = [i \in Ants |-> Intent(i)]
  /\ drawn' = [i \in Ants |-> drawn[i] + 2]
  /\ phase' = "commit"
  /\ UNCHANGED <<ants, stream, larder, grids, committed, loop, cancelled>>

(***************************************************************************)
(* Phase B: ant i moves, then picks up or drops, then marks its cell.      *)
(***************************************************************************)
\* Mutations of the two branches of commit: one forgets to look at the cell,
\* two look at the cell the ant left.
PicksUpAnyway(i) == ~ants[i].hasFood
PicksUpBehind(i) == ~ants[i].hasFood /\ food[ants[i].pos] > 0
DropsOffBehind(i) == ants[i].hasFood /\ ants[i].pos = Nest
PicksUp(i) == ~ants[i].hasFood /\ food[intents[i].pos] > 0
DropsOff(i) == ants[i].hasFood /\ intents[i].pos = Nest

\* Mutation: the whole pile goes with one ant.
TakePile(i) == [food EXCEPT ![intents[i].pos] = 0]
TakeOne(i) == [food EXCEPT ![intents[i].pos] = @ - 1]

\* Mutation: the load is stored but stays on the ant's back.
StillLoaded(i) == PicksUp(i) \/ ants[i].hasFood
Loaded(i) == PicksUp(i) \/ (ants[i].hasFood /\ ~DropsOff(i))

Committed(i) ==
  [pos     |-> intents[i].pos,
   dir     |-> IF PicksUp(i) \/ DropsOff(i) THEN Opposite(intents[i].dir) ELSE intents[i].dir,
   hasFood |-> Loaded(i),
   blocked |-> intents[i].blocked]

Handle(i) ==
  /\ ants' = [ants EXCEPT ![i] = Committed(i)]
  /\ food' = IF PicksUp(i) THEN TakeOne(i) ELSE food
  /\ foodLeft' = IF PicksUp(i) THEN foodLeft - 1 ELSE foodLeft
  /\ collected' = IF DropsOff(i) THEN collected + 1 ELSE collected

Mark(i, forFood, forHome) ==
  LET c == intents[i].pos IN
  IF Loaded(i)
  THEN depFood' = [depFood EXCEPT ![c] = AddSat(@, forFood)] /\ UNCHANGED depHome
  ELSE depHome' = [depHome EXCEPT ![c] = AddSat(@, forHome)] /\ UNCHANGED depFood

CommitAnt(i) == Handle(i) /\ Mark(i, DepositFood, DepositHome)

Commit ==
  /\ phase = "commit" /\ committed < AntCount
  /\ CommitAnt(committed)
  /\ committed' = committed + 1
  /\ UNCHANGED <<stream, drawn, pheroFood, pheroHome, nextFood, nextHome, intents, phase,
                 loop, cancelled>>

(***************************************************************************)
(* Phase C: fill the next buffers (a zero is not written), swap, clear.    *)
(***************************************************************************)
Written(cur, dep, next) ==
  [c \in Cells |-> IF Decayed(cur, dep, c) # 0 THEN Decayed(cur, dep, c) ELSE next[c]]

\* The swapped-out grid is the next write buffer, cleared.  Mutation: it keeps
\* the levels of the tick before.
SwappedOut(cur) == cur
Recycled(cur) == Zero

Decay ==
  /\ phase = "commit" /\ committed = AntCount
  /\ pheroFood' = Written(pheroFood, depFood, nextFood)
  /\ pheroHome' = Written(pheroHome, depHome, nextHome)
  /\ depFood' = Zero /\ depHome' = Zero
  /\ nextFood' = Recycled(pheroFood) /\ nextHome' = Recycled(pheroHome)
  /\ intents' = <<>>
  /\ phase' = "observe" /\ committed' = 0
  /\ UNCHANGED <<ants, stream, drawn, larder, loop, cancelled>>

Returned == phase = "returned" /\ UNCHANGED vars

Run == LoopHead \/ Sense \/ Commit \/ Decay \/ Observe \/ Finish
Next == Run \/ Cancel \/ Returned

\* Run is one goroutine that never waits: it is scheduled.
Spec == Init /\ [][Next]_vars /\ WF_vars(Run)
-----------------------------------------------------------------------------
(***************************************************************************)
(* Properties.                                                             *)
(***************************************************************************)
Levels == [Cells -> 0 .. MaxLevel]
Carriers == {i \in Ants : ants[i].hasFood}
Phases == {"loop", "sense", "commit", "observe", "final", "returned"}

\* The variables hold what their Go types and the clamps of phase B and C
\* allow: every ant is on the grid, every level is at most Pheromone.Max.
TypeOK ==
  /\ ants \in [Ants -> [pos : Cells, dir : Dirs, hasFood : BOOLEAN, blocked : BOOLEAN]]
  /\ stream \in [Ants -> [Positions -> 0 .. RawRange - 1]] /\ drawn \in [Ants -> Nat]
  /\ food \in [Cells -> Nat] /\ foodLeft \in Int /\ collected \in Nat
  /\ pheroFood \in Levels /\ pheroHome \in Levels
  /\ depFood \in Levels /\ depHome \in Levels
  /\ nextFood \in Levels /\ nextHome \in Levels
  /\ phase \in Phases /\ committed \in 0 .. AntCount
  /\ IF phase = "commit"
     THEN intents \in [Ants -> [pos : Cells, dir : Dirs, blocked : BOOLEAN]]
     ELSE intents = <<>> /\ committed = 0
  /\ t \in 0 .. Ticks /\ ticksRun = t /\ cancelled \in BOOLEAN
  /\ frames \in Seq([tick : 0 .. Ticks, done : BOOLEAN, walls : BOOLEAN])

\* No unit of food is lost or invented, whatever the order ants reach a pile
\* in: what lies on the grid, what is carried and what is stored add up to the
\* configured total at every commit (commit's two branches, tick.go 141-152).
FoodBalance == foodLeft + Cardinality(Carriers) + collected = FoodTotal

\* World.FoodLeft is a counter kept beside the Food map: it always counts the
\* units the map still holds, so the last one is never handed out twice.
FoodLeftIsWhatLies == foodLeft = Cardinality(UnitsOf(food))

\* Nobody idles on food: a searching ant takes a unit in the very commit that
\* brings it to a cell that has one, and a carrier drops its unit in the commit
\* that brings it home, so only on a nest that holds food can either be found
\* where it could act.  It is why the turn-around of a blocked ant is not undone.
NoneIdlesOnFood ==
  \A i \in Ants :
    /\ ~ants[i].hasFood /\ ants[i].pos # Nest => food[ants[i].pos] = 0
    /\ ants[i].hasFood /\ ants[i].pos = Nest => FoodAt(Nest) > 0

\* chooseMove trusts that an ant whose last tick failed to move already holds
\* the reversed heading (tick.go 38-43): committing a blocked intent leaves
\* exactly the heading the intent reversed to.
BlockedAntTurnsRound ==
  [][\A i \in Ants : phase = "commit" /\ committed = i /\ committed' = i + 1
                     /\ intents[i].blocked => ants'[i].dir = intents[i].dir]_vars

\* An ant that fails to move twice in a row, wandering in neither tick, has
\* looked both ways: all six cells of its cone and of the opposite cone are
\* closed to it.  It is the definition corrected in
\* docs/journal/02-correction-blocked.md.
Wandered(i, n) == Intn(stream[i][n], RandomDen) < RandomNum
WedgedOnlyBetweenWalls ==
  [][\A i \in Ants :
       phase = "sense" /\ phase' = "commit" /\ ants[i].blocked /\ intents'[i].blocked
       /\ ~Wandered(i, drawn[i]) /\ ~Wandered(i, drawn[i] - 2) =>
         \A d \in {ants[i].dir, Opposite(ants[i].dir)} :
           \A k \in 1 .. 3 : ~Passable(Ahead(ants[i].pos, Cone(d)[k]))]_vars

\* Phase C shows the next tick exactly the decayed levels of this one, in both
\* grids: the swapped buffer carries nothing over from two ticks ago although
\* decayGrid skips the cells whose level is zero.
DecayStartsFromCleanBuffers ==
  [][phase = "commit" /\ phase' = "observe" =>
       /\ pheroFood' = [c \in Cells |-> Decayed(pheroFood, depFood, c)]
       /\ pheroHome' = [c \in Cells |-> Decayed(pheroHome, depHome, c)]]_vars

\* The observer sees ticks in ascending order, the first frame is the one that
\* carries the walls, even when the run is cancelled before its first tick,
\* and the frame marked done is the last one and labelled with TicksRun.
FramesInOrder ==
  /\ \A m, n \in DOMAIN frames : m < n => frames[m].tick < frames[n].tick
  /\ frames # <<>> => frames[1].walls
  /\ \A n \in DOMAIN frames :
       frames[n].done <=> (phase = "returned" /\ n = Len(frames))
  /\ phase = "returned" /\ Every > 0 => frames[Len(frames)].tick = ticksRun

\* What Run promises about food, apart from the grid: see Harvest.
Larder == INSTANCE Harvest WITH Total <- FoodTotal, lying <- foodLeft,
                                carried <- Cardinality(Carriers), stored <- collected
ImplementsHarvest == Larder!Spec
=============================================================================
