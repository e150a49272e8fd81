---------------------------- MODULE ColonyProofs ----------------------------
(***************************************************************************)
(* The safety properties of Colony, proved for every configuration the     *)
(* loader accepts, every number of ants and every set of streams.          *)
(*                                                                         *)
(* Core, Pantry and FoodBalance together are inductive.  Core is what a    *)
(* step needs to be well defined: a stream is never read past its end and  *)
(* an intent leads to an open cell, or nowhere.  Pantry is what makes the  *)
(* turn-around of a blocked ant final.                                     *)
(*                                                                         *)
(* Nothing here looks at which open candidate an ant prefers or at how     *)
(* much it lays.  The lemmas speak of EngineStep, which leaves both open,  *)
(* so that they hold of the gradient and the scent engine too.             *)
(***************************************************************************)
EXTENDS Colony, GridProofs, FiniteSetTheorems

\* Each ant's position in its stream is a function of the ticks sensed alone,
\* whatever its neighbours did (tick.go 46-52).
StreamPosition ==
  \A i \in Ants :
    drawn[i] = 1 + 2 * (ticksRun + IF phase \in {"commit", "observe"} THEN 1 ELSE 0)

\* Phase B finds each intent as phase A left it: open, and where the ant is if
\* it could not move.
IntentsSound ==
  phase = "commit" =>
    \A i \in Ants :
      /\ intents[i].pos \notin WallCells
      /\ intents[i].blocked /\ i >= committed => intents[i].pos = ants[i].pos

Core ==
  /\ TypeOK
  /\ StreamPosition
  /\ phase \in {"sense", "commit", "observe"} => t < Ticks
  /\ \A i \in Ants : ants[i].pos \notin WallCells
  /\ IntentsSound

Pantry ==
  /\ \A c \in Cells : food[c] <= FoodAt(c)
  /\ NoneIdlesOnFood

CleanBuffers == nextFood = Zero /\ nextHome = Zero

\* Phase A, whichever open candidate the engine prefers: every ant draws twice
\* and decides soundly.
Sensing ==
  /\ phase = "sense" /\ phase' = "commit"
  /\ intents' \in [Ants -> IntentType]
  /\ \A i \in Ants : SoundIntent(ants[i], Intn(stream[i][drawn[i]], RandomDen), intents'[i])
  /\ drawn' = [i \in Ants |-> drawn[i] + 2]
  /\ UNCHANGED <<ants, stream, larder, grids, committed, loop, cancelled>>

\* One commit of phase B, whatever the engine lays.
Handling == phase = "commit" /\ committed < AntCount /\ Handle(committed)
Committing(forFood, forHome) ==
  /\ Handling
  /\ Mark(committed, forFood, forHome)
  /\ committed' = committed + 1
  /\ UNCHANGED <<stream, drawn, pheroFood, pheroHome, nextFood, nextHome, intents, phase,
                 loop, cancelled>>

\* A step of an engine that differs from the reference in no more than that.
EngineStep ==
  \/ Sensing \/ (\E forFood, forHome \in Nat : Committing(forFood, forHome))
  \/ Decay \/ LoopHead \/ Observe \/ Finish \/ Cancel \/ UNCHANGED vars

\* An empty grid is a grid of levels.
LEMMA ZeroType == Zero \in Levels
BY ConfigAssumption DEF Zero, Levels

\* What one commit writes: the ant is typed and off the walls, wherever its
\* intent leads it.
LEMMA CommittedType ==
  ASSUME Core, phase = "commit", NEW i \in Ants
  PROVE  /\ Committed(i) \in AntType
         /\ Committed(i).pos = intents[i].pos /\ intents[i].pos \in Cells \ WallCells
<1>1. intents[i] \in IntentType /\ intents[i].pos \notin WallCells
  BY DEF Core, TypeOK, IntentsSound, IntentType
<1>2. ants[i].hasFood \in BOOLEAN
  BY DEF Core, TypeOK
<1>3. Opposite(intents[i].dir) \in Dirs
  BY <1>1, OppositeType DEF IntentType
<1> QED BY <1>1, <1>2, <1>3 DEF Committed, Loaded, PicksUp, DropsOff, AntType, IntentType

\* newWorld satisfies the invariant: it takes the first draw of every stream.
LEMMA InitCore == Init => Core
<1> SUFFICES ASSUME Init PROVE Core
  OBVIOUS
<1>1. stream \in [Ants -> [Positions -> 0 .. RawRange - 1]] /\ 0 \in Positions
  BY RunAssumption, ConfigAssumption DEF Init, NewWorld, Positions
<1>2. \A i \in Ants : Intn(stream[i][0], 8) \in Dirs
  <2> SUFFICES ASSUME NEW i \in Ants PROVE Intn(stream[i][0], 8) \in Dirs
    OBVIOUS
  <2>1. stream[i][0] \in 0 .. RawRange - 1
    BY <1>1
  <2> QED BY <2>1, IntnRange DEF Dirs
<1>3. ants \in [Ants -> AntType]
  BY <1>2, ConfigAssumption DEF Init, NewWorld, AntType
<1>4. food \in [Cells -> Nat] /\ foodLeft \in Int
  BY WorldAssumption DEF Init, NewWorld
<1>5. frames \in Seq([tick : 0 .. Ticks, done : BOOLEAN, walls : BOOLEAN])
  BY DEF Init, NewWorld
<1>9. drawn \in [Ants -> Nat] /\ cancelled \in BOOLEAN
  BY DEF Init, NewWorld
<1>6. /\ collected \in Nat
      /\ phase \in Phases /\ committed \in 0 .. AntCount
      /\ phase # "commit" /\ intents = <<>> /\ committed = 0
      /\ t \in 0 .. Ticks /\ ticksRun = t
  BY ConfigAssumption DEF Init, NewWorld, Phases
<1>7. /\ pheroFood \in Levels /\ pheroHome \in Levels
      /\ depFood \in Levels /\ depHome \in Levels
      /\ nextFood \in Levels /\ nextHome \in Levels
  BY ZeroType DEF Init, NewWorld
<1>8. TypeOK
  BY <1>1, <1>3, <1>4, <1>5, <1>6, <1>7, <1>9 DEF TypeOK, AntType
<1> QED BY <1>6, <1>8, WorldAssumption DEF Init, NewWorld, Core, StreamPosition, IntentsSound

\* The two draws of phase A are where the stream has some, and in their range.
LEMMA Draws ==
  ASSUME Core, phase = "sense", NEW i \in Ants
  PROVE  /\ Intn(stream[i][drawn[i]], RandomDen) \in Nat
         /\ Intn(stream[i][drawn[i] + 1], 3) \in 0 .. 2
<1>1. drawn[i] \in Positions /\ drawn[i] + 1 \in Positions
  BY ConfigAssumption, SMTT(30) DEF Core, StreamPosition, TypeOK, Positions
<1>2. stream[i][drawn[i]] \in 0 .. RawRange - 1 /\ stream[i][drawn[i] + 1] \in 0 .. RawRange - 1
  BY <1>1 DEF Core, TypeOK
<1>3. RandomDen \in Nat \ {0} /\ 3 \in Nat \ {0}
  BY ConfigAssumption
<1>4. /\ Intn(stream[i][drawn[i]], RandomDen) \in 0 .. RandomDen - 1
      /\ Intn(stream[i][drawn[i] + 1], 3) \in 0 .. 3 - 1
  BY ONLY <1>2, <1>3, IntnRange
<1> QED
  BY ONLY <1>3, <1>4

\* The reference engine decides soundly.
LEMMA SenseSound == Core /\ Sense => Sensing
<1> SUFFICES ASSUME Core, Sense PROVE Sensing
  OBVIOUS
<1>1. \A i \in Ants : SoundIntent(ants[i], Intn(stream[i][drawn[i]], RandomDen), Intent(i))
  <2> SUFFICES ASSUME NEW i \in Ants
               PROVE  SoundIntent(ants[i], Intn(stream[i][drawn[i]], RandomDen), Intent(i))
    OBVIOUS
  <2> DEFINE roll == Intn(stream[i][drawn[i]], RandomDen)
             pick == Intn(stream[i][drawn[i] + 1], 3)
  <2>1. roll \in Nat /\ pick \in 0 .. 2
    BY Draws DEF Sense
  <2>2. ants[i] \in AntType /\ ants[i].pos \notin WallCells
    BY DEF Core, TypeOK, AntType
  <2>3. pheroFood \in [Cells -> Nat] /\ pheroHome \in [Cells -> Nat]
    <3>1. pheroFood \in Levels /\ pheroHome \in Levels
      BY DEF Core, TypeOK
    <3>2. 0 .. MaxLevel \subseteq Nat
      BY ConfigAssumption
    <3> QED BY ONLY <3>1, <3>2 DEF Levels
  <2>4. Intent(i) = ChooseMove(ants[i], roll, pick, pheroFood, pheroHome)
    BY DEF Intent
  <2> HIDE DEF roll, pick
  <2>5. SoundIntent(ants[i], roll, ChooseMove(ants[i], roll, pick, pheroFood, pheroHome))
    BY ONLY <2>1, <2>2, <2>3, ChooseMoveType
  <2> QED BY <2>4, <2>5 DEF roll
<1>2. \A i \in Ants : Intent(i) \in IntentType
  BY <1>1 DEF SoundIntent
<1> QED BY <1>1, <1>2 DEF Sense, Sensing

\* Every step of the reference engine is an EngineStep.
LEMMA ColonySteps == Core /\ [Next]_vars => EngineStep
<1>1. Commit => Committing(DepositFood, DepositHome) /\ DepositFood \in Nat /\ DepositHome \in Nat
  BY ConfigAssumption DEF Commit, CommitAnt, Committing, Handling
<1>2. Commit => \E forFood, forHome \in Nat : Committing(forFood, forHome)
  BY <1>1
<1> QED
  BY <1>2, SenseSound DEF Next, Run, Returned, EngineStep

\* Phase A leaves sound intents, and every stream where its tick expects it.
LEMMA SenseCore == Core /\ Sensing => Core'
<1> SUFFICES ASSUME Core, Sensing PROVE Core'
  OBVIOUS
<1> USE DEF Core
<1>1. t < Ticks /\ phase = "sense" /\ phase' = "commit" /\ intents' \in [Ants -> IntentType]
  BY DEF Sensing
<1>2. drawn' \in [Ants -> Nat] /\ StreamPosition'
  BY <1>1 DEF Sensing, TypeOK, StreamPosition, loop
<1>3. TypeOK'
  BY <1>1, <1>2 DEF Sensing, TypeOK, Phases, IntentType, larder, grids, loop
<1>4. IntentsSound'
  BY DEF Sensing, IntentsSound, SoundIntent
<1>5. (\A i \in Ants : ants[i].pos \notin WallCells)' /\ (t < Ticks)'
  BY <1>1 DEF Sensing, loop
<1> QED BY <1>2, <1>3, <1>4, <1>5

\* Committing one ant keeps the invariant, whichever branch it takes.
LEMMA CommitCore ==
  ASSUME Core, NEW forFood \in Nat, NEW forHome \in Nat, Committing(forFood, forHome)
  PROVE  Core'
<1> DEFINE i == committed
           c == intents[i].pos
<1>1. phase = "commit" /\ i \in Ants /\ i \in 0 .. AntCount - 1 /\ committed' = i + 1
  BY ConfigAssumption DEF Committing, Handling, Core, TypeOK, Ants
<1>2. /\ Committed(i) \in AntType /\ Committed(i).pos = c
      /\ c \in Cells /\ c \notin WallCells
  BY <1>1, CommittedType
<1>3. ants' = [ants EXCEPT ![i] = Committed(i)]
  BY DEF Committing, Handling, Handle, Mark
<1>4. ants' \in [Ants -> AntType]
  BY <1>1, <1>2, <1>3 DEF Core, TypeOK, AntType
<1>5. \A j \in Ants : ants'[j].pos \notin WallCells
  BY <1>1, <1>2, <1>3 DEF Core, TypeOK
<1>6. food' \in [Cells -> Nat] /\ foodLeft' \in Int /\ collected' \in Nat
  BY <1>1, <1>2 DEF Committing, Handling, Handle, Mark, TakeOne, PicksUp, Core, TypeOK
<1>7. depFood' \in Levels /\ depHome' \in Levels
  <2>1. depFood \in Levels /\ depHome \in Levels
    BY DEF Core, TypeOK
  <2>2. /\ AddSat(depFood[c], forFood) \in 0 .. MaxLevel
        /\ AddSat(depHome[c], forHome) \in 0 .. MaxLevel
    BY <1>2, <2>1, AddSatType, ConfigAssumption DEF Levels
  <2>3. /\ depFood' \in {depFood, [depFood EXCEPT ![c] = AddSat(depFood[c], forFood)]}
        /\ depHome' \in {depHome, [depHome EXCEPT ![c] = AddSat(depHome[c], forHome)]}
    BY DEF Committing, Handling, Handle, Mark
  <2> QED BY <2>1, <2>2, <2>3 DEF Levels
<1>8. committed' \in 0 .. AntCount /\ phase' = "commit" /\ intents' = intents
  BY <1>1, ConfigAssumption DEF Committing, Handling
<1>9. TypeOK'
  BY <1>1, <1>4, <1>6, <1>7, <1>8 DEF Committing, Handling, Core, TypeOK, AntType, loop
<1>10. IntentsSound'
  BY <1>1, <1>3, <1>8 DEF Core, TypeOK, IntentsSound, Ants
<1>11. StreamPosition' /\ (t < Ticks)'
  BY <1>1, <1>8 DEF Committing, Handling, Core, StreamPosition, loop
<1> QED BY <1>5, <1>9, <1>10, <1>11 DEF Core

\* Phase C writes levels that are below the ceiling and forgets the intents.
LEMMA DecayCore == Core /\ Decay => Core'
<1> SUFFICES ASSUME Core, Decay PROVE Core'
  OBVIOUS
<1>1. \A cur, dep, next \in Levels : Written(cur, dep, next) \in Levels
  <2> SUFFICES ASSUME NEW cur \in Levels, NEW dep \in Levels, NEW next \in Levels
               PROVE  Written(cur, dep, next) \in Levels
    OBVIOUS
  <2>1. cur \in [Cells -> Nat] /\ dep \in [Cells -> Nat]
    BY ConfigAssumption DEF Levels
  <2>2. \A c \in Cells : Decayed(cur, dep, c) \in 0 .. MaxLevel
    BY <2>1, DecayedType
  <2> QED BY <2>2 DEF Written, Levels
<1>2. pheroFood' \in Levels /\ pheroHome' \in Levels
  BY <1>1 DEF Decay, Core, TypeOK
<1>3. depFood' \in Levels /\ depHome' \in Levels /\ nextFood' \in Levels /\ nextHome' \in Levels
  BY ZeroType DEF Decay, Recycled
<1>4. TypeOK'
  BY <1>2, <1>3, ConfigAssumption DEF Decay, Core, TypeOK, Phases, larder, loop
<1>5. StreamPosition' /\ (t < Ticks)' /\ IntentsSound'
  BY DEF Decay, Core, StreamPosition, IntentsSound, loop
<1> QED BY <1>4, <1>5 DEF Decay, Core

\* A frame appended to the frames keeps their type.
LEMMA FrameType ==
  ASSUME TypeOK, NEW n \in 0 .. Ticks, NEW done \in BOOLEAN
  PROVE  Append(frames, Frame(n, done)) \in Seq([tick : 0 .. Ticks, done : BOOLEAN, walls : BOOLEAN])
<1> DEFINE F == [tick : 0 .. Ticks, done : BOOLEAN, walls : BOOLEAN]
<1>1. frames \in Seq(F) /\ Frame(n, done) \in F
  BY DEF TypeOK, Frame
<1> HIDE DEF F
<1>2. Append(frames, Frame(n, done)) \in Seq(F)
  BY <1>1
<1> QED BY <1>2 DEF F

\* The loop of Run touches neither the world nor the streams.
LEMMA LoopCore == Core /\ (LoopHead \/ Observe \/ Finish \/ Cancel) => Core'
<1> SUFFICES ASSUME Core, LoopHead \/ Observe \/ Finish \/ Cancel PROVE Core'
  OBVIOUS
<1> USE DEF Core, larder, grids, loop
<1>1. CASE LoopHead
  BY <1>1 DEF LoopHead, TypeOK, Phases, StreamPosition, IntentsSound
<1>2. CASE Observe
  <2>1. frames' \in Seq([tick : 0 .. Ticks, done : BOOLEAN, walls : BOOLEAN])
    <3>1. t \in 0 .. Ticks /\ frames \in Seq([tick : 0 .. Ticks, done : BOOLEAN, walls : BOOLEAN])
      BY DEF TypeOK
    <3> QED BY <1>2, <3>1, FrameType DEF Observe
  <2>2. t < Ticks /\ t \in Nat /\ ticksRun = t
    BY <1>2, ConfigAssumption DEF Observe, TypeOK
  <2>5. t' \in 0 .. Ticks /\ ticksRun' = t' /\ phase' = "loop" /\ phase # "commit"
    BY <1>2, <2>2, ConfigAssumption DEF Observe
  <2>3. TypeOK'
    BY <1>2, <2>1, <2>5 DEF Observe, TypeOK, Phases
  <2>4. StreamPosition' /\ IntentsSound'
    BY <1>2, <2>2 DEF Observe, StreamPosition, IntentsSound
  <2> QED BY <1>2, <2>3, <2>4 DEF Observe
<1>3. CASE Finish
  <2>1. frames' \in Seq([tick : 0 .. Ticks, done : BOOLEAN, walls : BOOLEAN])
    <3>1. /\ ticksRun \in 0 .. Ticks
          /\ frames \in Seq([tick : 0 .. Ticks, done : BOOLEAN, walls : BOOLEAN])
      BY DEF TypeOK
    <3> QED BY <1>3, <3>1, FrameType DEF Finish
  <2>2. TypeOK'
    BY <1>3, <2>1 DEF Finish, TypeOK, Phases
  <2> QED BY <1>3, <2>2 DEF Finish, StreamPosition, IntentsSound
<1>4. CASE Cancel
  BY <1>4 DEF Cancel, TypeOK, StreamPosition, IntentsSound
<1> QED BY <1>1, <1>2, <1>3, <1>4

\* Core is inductive.
LEMMA StepCore == Core /\ EngineStep => Core'
<1>1. Core /\ UNCHANGED vars => Core'
  BY DEF Core, TypeOK, StreamPosition, IntentsSound, vars, larder, grids, loop
<1> QED BY <1>1, SenseCore, CommitCore, DecayCore, LoopCore DEF EngineStep

LEMMA NextCore == Core /\ [Next]_vars => Core' /\ EngineStep
BY StepCore, ColonySteps

\* TypeOK holds of every state of every run: no intent leaves the grid, no
\* level exceeds Pheromone.Max, no stream is read past its end.
THEOREM ColonyTypeOK == Spec => []TypeOK
<1>1. Core => TypeOK
  BY DEF Core
<1> QED BY <1>1, InitCore, NextCore, PTL DEF Spec

\* No ant of any run ever stands on a wall.
THEOREM AntsStayOffWalls == Spec => [](\A i \in Ants : ants[i].pos \notin WallCells)
<1>1. Core => \A i \in Ants : ants[i].pos \notin WallCells
  BY DEF Core
<1> QED BY <1>1, InitCore, NextCore, PTL DEF Spec

(***************************************************************************)
(* Food.                                                                   *)
(***************************************************************************)
\* No ant carries at the start, and all of them stand on the nest.
LEMMA InitPantry == Init => Pantry
BY WorldAssumption DEF Init, NewWorld, Pantry, NoneIdlesOnFood

\* Only a commit moves ants or food, and it acts on the cell it reaches.
LEMMA StepPantry == Core /\ Pantry /\ EngineStep => Pantry'
<1> SUFFICES ASSUME Core, Pantry, EngineStep PROVE Pantry'
  OBVIOUS
<1>1. CASE Handling
  <2> DEFINE i == committed
             c == intents[i].pos
  <2>1. phase = "commit" /\ i \in Ants
    BY <1>1, ConfigAssumption DEF Handling, Core, TypeOK, Ants
  <2>2. Committed(i).pos = c /\ c \in Cells
    BY <2>1, CommittedType
  <2>3. ants' = [ants EXCEPT ![i] = Committed(i)] /\ ants \in [Ants -> AntType]
    BY <1>1 DEF Handling, Handle, Core, TypeOK, AntType
  <2>4. food \in [Cells -> Nat] /\ food' = IF PicksUp(i) THEN [food EXCEPT ![c] = @ - 1] ELSE food
    BY <1>1 DEF Handling, Handle, TakeOne, Core, TypeOK
  <2>5. PicksUp(i) => food[c] > 0
    BY DEF PicksUp
  <2>6. \A d \in Cells : food'[d] \in Nat /\ food'[d] <= food[d]
    BY <2>2, <2>4, <2>5
  <2>7. \A d \in Cells : food'[d] <= FoodAt(d)
    BY <2>4, <2>6, WorldAssumption DEF Pantry
  <2>8. ASSUME NEW j \in Ants, ~ants'[j].hasFood, ants'[j].pos # Nest
        PROVE  food'[ants'[j].pos] = 0
    <3>1. CASE j # i
      <4>1. ants'[j] = ants[j] /\ ants[j].pos \in Cells
        BY <2>3, <3>1 DEF AntType
      <4>2. food[ants[j].pos] = 0
        BY <2>8, <4>1 DEF Pantry, NoneIdlesOnFood
      <4> QED BY <2>4, <2>6, <4>1, <4>2
    <3>2. CASE j = i
      <4>1. ants'[j] = Committed(i)
        BY <2>1, <2>3, <3>2
      <4>2. ~Committed(i).hasFood /\ c # Nest
        BY <2>2, <2>8, <4>1
      <4>3. ~PicksUp(i) /\ ~ants[i].hasFood
        BY <4>2 DEF Committed, Loaded, DropsOff
      <4>4. food[c] = 0 /\ food' = food
        BY <2>2, <2>4, <4>3 DEF PicksUp
      <4> QED BY <2>2, <4>1, <4>4
    <3> QED BY <3>1, <3>2
  <2>9. ASSUME NEW j \in Ants, ants'[j].hasFood, ants'[j].pos = Nest
        PROVE  FoodAt(Nest) > 0
    <3>1. CASE j # i
      BY <2>3, <2>9, <3>1 DEF Pantry, NoneIdlesOnFood
    <3>2. CASE j = i
      <4>1. ants'[j] = Committed(i)
        BY <2>1, <2>3, <3>2
      <4>2. Committed(i).hasFood /\ c = Nest
        BY <2>2, <2>9, <4>1
      <4>3. PicksUp(i)
        BY <4>2 DEF Committed, Loaded, DropsOff
      <4>4. food[Nest] > 0 /\ food[Nest] <= FoodAt(Nest)
        BY <2>2, <2>5, <4>2, <4>3 DEF Pantry
      <4> QED BY <2>2, <2>4, <4>2, <4>4, WorldAssumption
    <3> QED BY <3>1, <3>2
  <2> QED BY <2>7, <2>8, <2>9 DEF Pantry, NoneIdlesOnFood
<1>2. ASSUME UNCHANGED <<ants, food>>
      PROVE  Pantry'
  BY <1>2 DEF Pantry, NoneIdlesOnFood
<1>3. CASE UNCHANGED vars
  BY <1>2, <1>3 DEF vars, larder
<1>4. CASE LoopHead \/ Sensing \/ Decay \/ Observe \/ Finish \/ Cancel
  BY <1>2, <1>4 DEF LoopHead, Sensing, Decay, Observe, Finish, Cancel, larder
<1> QED BY <1>1, <1>3, <1>4 DEF EngineStep, Committing

\* A searching ant never stands on food and a carrier never stands on a nest
\* without any, in every run of every configuration.
THEOREM ColonyNoneIdlesOnFood == Spec => []NoneIdlesOnFood
<1>1. Pantry => NoneIdlesOnFood
  BY DEF Pantry
<1> QED BY <1>1, InitCore, NextCore, InitPantry, StepPantry, PTL DEF Spec

\* Unless the configuration puts food on the nest, the commit of a blocked
\* intent is not undone: the ant stands where it stood and there is nothing there.
LEMMA BlockedStays ==
  ASSUME FoodAt(Nest) = 0, Core, Pantry, Handling, intents[committed].blocked
  PROVE  /\ committed \in Ants
         /\ ants'[committed] = [pos |-> ants[committed].pos, dir |-> intents[committed].dir,
                                hasFood |-> ants[committed].hasFood, blocked |-> TRUE]
<1> DEFINE i == committed
<1>1. i \in Ants /\ i \in Nat /\ phase = "commit"
  BY ConfigAssumption DEF Handling, Core, TypeOK, Ants
<1>2. intents[i].pos = ants[i].pos
  BY <1>1 DEF Core, IntentsSound
<1>3. ants[i].pos \in Cells /\ food \in [Cells -> Nat] /\ ants[i].hasFood \in BOOLEAN
  BY <1>1 DEF Core, TypeOK
<1>4. food[Nest] = 0
  BY <1>3, ConfigAssumption DEF Pantry
<1>5. ~PicksUp(i) /\ ~DropsOff(i)
  BY <1>1, <1>2, <1>4 DEF PicksUp, DropsOff, Pantry, NoneIdlesOnFood
<1>6. ants'[i] = Committed(i)
  BY <1>1 DEF Handling, Handle, Core, TypeOK
<1>7. intents[i].blocked = TRUE
  BY <1>1 DEF Core, TypeOK
<1>8. Committed(i) = [pos |-> ants[i].pos, dir |-> intents[i].dir,
                      hasFood |-> ants[i].hasFood, blocked |-> TRUE]
  BY <1>2, <1>3, <1>5, <1>7 DEF Committed, Loaded
<1> QED
  BY <1>1, <1>6, <1>8

\* An engine that commits ant after ant turns a blocked ant round for good.
LEMMA StepTurnsRound ==
  ASSUME FoodAt(Nest) = 0, Core, Pantry, EngineStep,
         NEW i \in Ants, phase = "commit", committed = i, committed' = i + 1, intents[i].blocked
  PROVE  ants'[i].dir = intents[i].dir
<1>1. i \in Nat /\ AntCount \in Nat /\ i < AntCount
  BY ConfigAssumption DEF Ants
<1>2. committed # committed' /\ committed # AntCount
  BY <1>1
<1>3. Handling
  BY <1>2 DEF EngineStep, Committing, LoopHead, Sensing, Decay, Observe, Finish, Cancel, vars
<1> QED
  BY <1>3, BlockedStays

\* Unless the configuration puts food on the nest, a blocked ant keeps the
\* heading it was turned to: the premise of chooseMove's comment.
THEOREM ColonyBlockedAntTurnsRound == FoodAt(Nest) = 0 => (Spec => BlockedAntTurnsRound)
<1> DEFINE Turned == \A i \in Ants : phase = "commit" /\ committed = i /\ committed' = i + 1
                     /\ intents[i].blocked => ants'[i].dir = intents[i].dir
<1> SUFFICES ASSUME FoodAt(Nest) = 0 PROVE Spec => BlockedAntTurnsRound
  OBVIOUS
<1>1. Core /\ Pantry /\ EngineStep => Turned
  BY StepTurnsRound
<1>2. Core /\ Pantry /\ EngineStep => [Turned]_vars
  BY <1>1
<1> QED
  BY <1>2, InitCore, NextCore, InitPantry, StepPantry, PTL DEF Spec, BlockedAntTurnsRound

\* No cell of the cone of d is open to an ant at c.
Closed(c, d) == \A k \in 1 .. 3 : ~Passable(Ahead(c, Cone(d)[k]))

\* Phase B has not reached ant i: what it decided is still to come.
Awaiting(i) == phase = "commit" /\ committed <= i

\* What an ant that could not move has seen: everything behind it is closed,
\* unless the tick that stopped it was one it wandered in.
LookedBack ==
  \A i \in Ants :
    /\ Awaiting(i) /\ intents[i].blocked /\ ~Wandered(i, drawn[i] - 2) =>
         intents[i].dir = Opposite(ants[i].dir) /\ Closed(ants[i].pos, ants[i].dir)
    /\ ants[i].blocked /\ ~Wandered(i, drawn[i] - IF Awaiting(i) THEN 4 ELSE 2) =>
         Closed(ants[i].pos, Opposite(ants[i].dir))

\* The candidates of an ant are the open cells of its cone.
LEMMA CandidatesClosed ==
  ASSUME NEW a, Candidates(a) = {}
  PROVE  Closed(a.pos, a.dir)
BY DEF Candidates, Closed, Heading

LEMMA InitLookedBack == Init => LookedBack
BY DEF Init, NewWorld, LookedBack, Awaiting

\* Phase A writes down what it saw, phase B moves it to the ant.
LEMMA StepLookedBack ==
  ASSUME FoodAt(Nest) = 0, Core, Pantry, LookedBack, EngineStep
  PROVE  LookedBack'
<1>1. AntCount \in Nat /\ \A i \in Ants : drawn[i] \in Nat /\ i \in Nat /\ i < AntCount
  BY ConfigAssumption DEF Core, TypeOK, Ants
<1>2. ASSUME NEW f \in Nat, NEW h \in Nat, Committing(f, h)
      PROVE  LookedBack'
  <2> DEFINE i == committed
  <2>1. /\ phase = "commit" /\ i \in Ants /\ phase' = "commit" /\ committed' = i + 1
        /\ intents' = intents /\ drawn' = drawn /\ stream' = stream
        /\ Handling
    BY <1>2, ConfigAssumption DEF Committing, Handling, Core, TypeOK, Ants
  <2>2. ants' = [ants EXCEPT ![i] = Committed(i)] /\ ants \in [Ants -> AntType]
    BY <1>2 DEF Committing, Handling, Handle, Core, TypeOK, AntType
  <2>3. \A j \in Ants : Awaiting(j)' => j # i /\ Awaiting(j)
    BY <1>1, <2>1 DEF Awaiting
  <2>4. \A j \in Ants : j # i => ants'[j] = ants[j] /\ (Awaiting(j)' <=> Awaiting(j))
    BY <1>1, <2>1, <2>2 DEF Awaiting
  <2>5. \A j \in Ants : j = i => Awaiting(j) /\ ~Awaiting(j)'
    BY <1>1, <2>1 DEF Awaiting
  <2>6. ASSUME ants'[i].blocked, ~Wandered(i, drawn[i] - 2)
        PROVE  Closed(ants'[i].pos, Opposite(ants'[i].dir))
    <3>1. intents[i].blocked
      BY <2>1, <2>2, <2>6 DEF Committed
    <3>2. /\ ants'[i].pos = ants[i].pos /\ ants'[i].dir = intents[i].dir
      BY <2>1, <3>1, BlockedStays
    <3>3. intents[i].dir = Opposite(ants[i].dir) /\ Closed(ants[i].pos, ants[i].dir)
      BY <2>1, <2>5, <2>6, <3>1 DEF LookedBack
    <3>4. Opposite(Opposite(ants[i].dir)) = ants[i].dir
      BY <2>1, <2>2, OppositeType DEF AntType
    <3> QED
      BY <3>2, <3>3, <3>4
  <2>7. \A j \in Ants : \A m : Wandered(j, m)' <=> Wandered(j, m)
    BY <2>1 DEF Wandered
  <2> QED
    BY <2>1, <2>3, <2>4, <2>5, <2>6, <2>7 DEF LookedBack
<1>3. CASE Sensing
  <2>1. /\ \A i \in Ants : ~Awaiting(i) /\ drawn'[i] = drawn[i] + 2
        /\ ants' = ants /\ stream' = stream /\ phase' = "commit"
    BY <1>1, <1>3 DEF Sensing, Awaiting, Core, TypeOK
  <2>2. committed' = 0
    BY <1>3 DEF Sensing, Core, TypeOK
  <2>3. \A i \in Ants : Awaiting(i)'
    BY <1>1, <2>1, <2>2 DEF Awaiting
  <2>4. \A i \in Ants : drawn'[i] - 2 = drawn[i] /\ drawn'[i] - 4 = drawn[i] - 2
    BY <1>1, <2>1
  <2>5. ASSUME NEW i \in Ants, intents'[i].blocked, ~Wandered(i, drawn[i])
        PROVE  intents'[i].dir = Opposite(ants[i].dir) /\ Closed(ants[i].pos, ants[i].dir)
    <3>1. intents'[i].dir = Opposite(ants[i].dir) /\ Candidates(ants[i]) = {}
      BY <1>3, <2>5 DEF Sensing, SoundIntent, Wandered
    <3> QED
      BY <3>1, CandidatesClosed
  <2>6. \A j \in Ants : \A m : Wandered(j, m)' <=> Wandered(j, m)
    BY <2>1 DEF Wandered
  <2> QED
    BY <2>1, <2>3, <2>4, <2>5, <2>6 DEF LookedBack
<1>4. ASSUME UNCHANGED <<ants, drawn, stream, intents, committed>>, phase # "commit",
             phase' # "commit"
      PROVE  LookedBack'
  BY <1>4 DEF LookedBack, Awaiting, Wandered
<1>5. CASE Decay
  <2>1. \A i \in Ants : ~Awaiting(i) /\ ~Awaiting(i)'
    BY <1>1, <1>5 DEF Decay, Awaiting
  <2> QED
    BY <1>5, <2>1 DEF Decay, LookedBack, Wandered
<1>6. CASE UNCHANGED vars \/ Cancel
  BY <1>6 DEF LookedBack, Awaiting, Wandered, Cancel, vars
<1>7. CASE LoopHead \/ Observe \/ Finish
  BY <1>4, <1>7 DEF LoopHead, Observe, Finish
<1> QED
  BY <1>2, <1>3, <1>5, <1>6, <1>7 DEF EngineStep

\* What a second failure in a row has seen: both cones closed.
LEMMA StepWedged ==
  ASSUME Core, LookedBack, EngineStep, NEW i \in Ants, phase = "sense", phase' = "commit",
         ants[i].blocked, intents'[i].blocked,
         ~Wandered(i, drawn[i]), ~Wandered(i, drawn[i] - 2)
  PROVE  Closed(ants[i].pos, ants[i].dir) /\ Closed(ants[i].pos, Opposite(ants[i].dir))
<1>1. Sensing
  BY DEF EngineStep, Committing, Handling, LoopHead, Decay, Observe, Finish, Cancel, vars
<1>2. Candidates(ants[i]) = {}
  BY <1>1 DEF Sensing, SoundIntent, Wandered
<1>3. Closed(ants[i].pos, ants[i].dir)
  BY <1>2, CandidatesClosed
<1>4. ~Awaiting(i)
  BY DEF Awaiting
<1> QED
  BY <1>3, <1>4 DEF LookedBack

\* Unless there is food on the nest, an ant that fails to move twice in a row,
\* wandering in neither tick, is closed in on both sides: nobody is left
\* standing by a wrong turn (docs/journal/02-correction-blocked.md).
THEOREM ColonyWedgedOnlyBetweenWalls == FoodAt(Nest) = 0 => (Spec => WedgedOnlyBetweenWalls)
<1> DEFINE Wedged ==
      \A i \in Ants :
        phase = "sense" /\ phase' = "commit" /\ ants[i].blocked /\ intents'[i].blocked
        /\ ~Wandered(i, drawn[i]) /\ ~Wandered(i, drawn[i] - 2) =>
          \A d \in {ants[i].dir, Opposite(ants[i].dir)} :
            \A k \in 1 .. 3 : ~Passable(Ahead(ants[i].pos, Cone(d)[k]))
<1> SUFFICES ASSUME FoodAt(Nest) = 0 PROVE Spec => WedgedOnlyBetweenWalls
  OBVIOUS
<1>1. Core /\ LookedBack /\ EngineStep => Wedged
  BY StepWedged DEF Closed
<1>2. Core /\ LookedBack /\ EngineStep => [Wedged]_vars
  BY <1>1
<1>3. Core /\ Pantry /\ LookedBack /\ EngineStep => LookedBack'
  BY StepLookedBack
<1> QED
  BY <1>2, <1>3, InitCore, NextCore, InitPantry, StepPantry, InitLookedBack, PTL
  DEF Spec, WedgedOnlyBetweenWalls

\* One commit moves one ant into the carriers, out of them, or neither.
LEMMA CommitCarriers ==
  ASSUME Core, Handling
  PROVE  /\ IsFiniteSet(Carriers)
         /\ PicksUp(committed) =>
              committed \notin Carriers /\ Carriers' = Carriers \cup {committed}
         /\ DropsOff(committed) =>
              committed \in Carriers /\ Carriers' = Carriers \ {committed}
         /\ ~PicksUp(committed) /\ ~DropsOff(committed) => Carriers' = Carriers
<1> DEFINE i == committed
<1>1. IsFiniteSet(Ants)
  BY FS_Interval, ConfigAssumption DEF Ants
<1>2. IsFiniteSet(Carriers)
  BY <1>1, FS_Subset DEF Carriers
<1>3. i \in Ants
  BY ConfigAssumption DEF Handling, Core, TypeOK, Ants
<1>4. ants' = [ants EXCEPT ![i] = Committed(i)] /\ ants \in [Ants -> AntType]
  BY DEF Handling, Handle, Core, TypeOK, AntType
<1>5. \A j \in Ants : ants'[j].hasFood = IF j = i THEN Committed(i).hasFood ELSE ants[j].hasFood
  BY <1>3, <1>4
<1>6. Committed(i).hasFood = (PicksUp(i) \/ (ants[i].hasFood /\ ~DropsOff(i)))
  BY DEF Committed, Loaded
<1>7. (PicksUp(i) => ~ants[i].hasFood) /\ (DropsOff(i) => ants[i].hasFood)
  BY DEF PicksUp, DropsOff
<1>8. \A j : j \in Carriers <=> j \in Ants /\ ants[j].hasFood
  BY DEF Carriers
<1>9. \A j : j \in Carriers' <=> j \in Ants /\ ants'[j].hasFood
  BY DEF Carriers
<1> QED BY <1>2, <1>3, <1>5, <1>6, <1>7, <1>8, <1>9

\* At the start nothing is carried and nothing is stored.
LEMMA InitBalance == Init => FoodBalance
<1> SUFFICES ASSUME Init PROVE FoodBalance
  OBVIOUS
<1>1. Carriers = {}
  BY DEF Init, NewWorld, Carriers
<1>2. Cardinality(Carriers) = 0
  BY <1>1, FS_EmptySet
<1> QED BY <1>2, WorldAssumption DEF Init, NewWorld, FoodBalance

\* A commit moves at most one unit: from the ground to an ant, or to the store.
LEMMA StepBalance == Core /\ FoodBalance /\ EngineStep => FoodBalance'
<1> SUFFICES ASSUME Core, FoodBalance, EngineStep PROVE FoodBalance'
  OBVIOUS
<1>1. CASE Handling
  <2>1. IsFiniteSet(Carriers) /\ Cardinality(Carriers) \in Nat
    BY <1>1, CommitCarriers, FS_CardinalityType
  <2>2. foodLeft \in Int /\ collected \in Nat /\ FoodTotal \in Nat
    BY WorldAssumption DEF Core, TypeOK
  <2>3. ~(PicksUp(committed) /\ DropsOff(committed))
    BY DEF PicksUp, DropsOff
  <2>4. /\ foodLeft' = IF PicksUp(committed) THEN foodLeft - 1 ELSE foodLeft
        /\ collected' = IF DropsOff(committed) THEN collected + 1 ELSE collected
    BY <1>1 DEF Handling, Handle
  <2>5. CASE PicksUp(committed)
    <3>1. Cardinality(Carriers') = Cardinality(Carriers) + 1
      BY <1>1, <2>1, <2>5, CommitCarriers, FS_AddElement
    <3> QED BY <2>1, <2>2, <2>3, <2>4, <2>5, <3>1 DEF FoodBalance
  <2>6. CASE DropsOff(committed)
    <3>1. Cardinality(Carriers') = Cardinality(Carriers) - 1
      BY <1>1, <2>1, <2>6, CommitCarriers, FS_RemoveElement
    <3> QED BY <2>1, <2>2, <2>3, <2>4, <2>6, <3>1 DEF FoodBalance
  <2>7. CASE ~PicksUp(committed) /\ ~DropsOff(committed)
    BY <1>1, <2>4, <2>7, CommitCarriers DEF FoodBalance
  <2> QED BY <2>5, <2>6, <2>7
<1>2. ASSUME UNCHANGED <<ants, foodLeft, collected>>
      PROVE  FoodBalance'
  BY <1>2 DEF FoodBalance, Carriers
<1>3. CASE UNCHANGED vars
  BY <1>2, <1>3 DEF vars, larder
<1>4. CASE LoopHead \/ Sensing \/ Decay \/ Observe \/ Finish \/ Cancel
  BY <1>2, <1>4 DEF LoopHead, Sensing, Decay, Observe, Finish, Cancel, larder
<1> QED BY <1>1, <1>3, <1>4 DEF EngineStep, Committing

\* Whatever the number of ants, the piles and the order of commits, no unit of
\* food is lost or handed out twice.
THEOREM ColonyFoodBalance == Spec => []FoodBalance
BY InitCore, NextCore, InitBalance, StepBalance, PTL DEF Spec

\* The units of a pile are finitely many: the grid is, and no cell holds more
\* than the total.
LEMMA UnitsFinite ==
  ASSUME NEW pile \in [Cells -> Nat], \A c \in Cells : pile[c] <= FoodTotal
  PROVE  IsFiniteSet(UnitsOf(pile))
<1>1. /\ IsFiniteSet(0 .. Width - 1) /\ IsFiniteSet(0 .. Height - 1)
      /\ IsFiniteSet(1 .. FoodTotal)
  <2>1. Width - 1 \in Int /\ Height - 1 \in Int /\ FoodTotal \in Int /\ 0 \in Int /\ 1 \in Int
    BY ConfigAssumption, WorldAssumption
  <2> QED
    BY <2>1, FS_Interval
<1>2. IsFiniteSet(Cells)
  BY <1>1, FS_Product DEF Cells
<1>3. IsFiniteSet(Cells \X (1 .. FoodTotal))
  BY <1>1, <1>2, FS_Product
<1>4. UnitsOf(pile) \subseteq Cells \X (1 .. FoodTotal)
  BY WorldAssumption DEF UnitsOf
<1> QED
  BY <1>3, <1>4, FS_Subset

\* A unit lies where its pile is at least as high.
LEMMA UnitLies ==
  ASSUME NEW pile, NEW c \in Cells, NEW h
  PROVE  <<c, h>> \in UnitsOf(pile) <=> h \in 1 .. pile[c]
BY DEF UnitsOf

\* A pile that loses one unit loses the topmost.
LEMMA OneUnitLess ==
  ASSUME NEW pile \in [Cells -> Nat], \A d \in Cells : pile[d] <= FoodTotal,
         NEW c \in Cells, pile[c] > 0
  PROVE  /\ Cardinality(UnitsOf(pile)) \in Nat \ {0}
         /\ Cardinality(UnitsOf([pile EXCEPT ![c] = @ - 1])) = Cardinality(UnitsOf(pile)) - 1
<1> DEFINE top == <<c, pile[c]>>
           less == [pile EXCEPT ![c] = @ - 1]
<1>1. IsFiniteSet(UnitsOf(pile))
  BY UnitsFinite
<1>2. top \in UnitsOf(pile)
  BY UnitLies
<1>3. \A d \in Cells : \A h : <<d, h>> \in UnitsOf(less) <=> <<d, h>> \in UnitsOf(pile) /\ <<d, h>> # top
  <2> SUFFICES ASSUME NEW d \in Cells, NEW h
               PROVE  h \in 1 .. less[d] <=> h \in 1 .. pile[d] /\ <<d, h>> # top
    BY UnitLies
  <2>1. CASE d = c
    BY <2>1
  <2>2. CASE d # c
    BY <2>2
  <2> QED
    BY <2>1, <2>2
<1>4. \A u \in UnitsOf(pile) \cup UnitsOf(less) : \E d \in Cells : \E h : u = <<d, h>>
  BY DEF UnitsOf
<1>5. UnitsOf(less) = UnitsOf(pile) \ {top}
  <2> HIDE DEF top, less
  <2> QED
    BY <1>3, <1>4
<1>6. Cardinality(UnitsOf(pile)) \in Nat /\ Cardinality(UnitsOf(pile)) # 0
  BY <1>1, <1>2, FS_CardinalityType, FS_EmptySet
<1>7. Cardinality(UnitsOf(less)) = Cardinality(UnitsOf(pile)) - 1
  BY <1>1, <1>2, <1>5, FS_RemoveElement
<1> QED
  BY <1>6, <1>7

\* A commit that picks up finds a unit left to count, and takes one off both.
LEMMA CommitCounted ==
  ASSUME Core, Pantry, FoodLeftIsWhatLies, Handling
  PROVE  /\ FoodLeftIsWhatLies'
         /\ PicksUp(committed) => foodLeft \in Nat \ {0}
<1> DEFINE i == committed
           c == intents[i].pos
<1>1. phase = "commit" /\ i \in Ants
  BY ConfigAssumption DEF Handling, Core, TypeOK, Ants
<1>2. c \in Cells
  BY <1>1, CommittedType
<1>3. food \in [Cells -> Nat] /\ foodLeft \in Int
  BY DEF Core, TypeOK
<1>4. /\ food' = IF PicksUp(i) THEN [food EXCEPT ![c] = @ - 1] ELSE food
      /\ foodLeft' = IF PicksUp(i) THEN foodLeft - 1 ELSE foodLeft
  BY DEF Handling, Handle, TakeOne
<1>5. CASE PicksUp(i)
  <2>1. food[c] > 0
    BY <1>5 DEF PicksUp
  <2>2. \A d \in Cells : food[d] <= FoodTotal
    BY <1>3, WorldAssumption, TotalAssumption DEF Pantry
  <2>3. /\ Cardinality(UnitsOf(food)) \in Nat \ {0}
        /\ Cardinality(UnitsOf([food EXCEPT ![c] = @ - 1])) = Cardinality(UnitsOf(food)) - 1
    BY <1>2, <1>3, <2>1, <2>2, OneUnitLess
  <2> QED
    BY <1>4, <1>5, <2>3 DEF FoodLeftIsWhatLies
<1>6. CASE ~PicksUp(i)
  BY <1>4, <1>6 DEF FoodLeftIsWhatLies
<1> QED
  BY <1>5, <1>6

LEMMA InitCounted == Init => FoodLeftIsWhatLies
BY TotalAssumption DEF Init, NewWorld, FoodLeftIsWhatLies

LEMMA StepCounted == Core /\ Pantry /\ FoodLeftIsWhatLies /\ EngineStep => FoodLeftIsWhatLies'
<1>1. CASE Handling
  BY <1>1, CommitCounted
<1>2. CASE UNCHANGED <<food, foodLeft>>
  BY <1>2 DEF FoodLeftIsWhatLies
<1> QED
  BY <1>1, <1>2 DEF EngineStep, Committing, LoopHead, Sensing, Decay, Observe, Finish, Cancel,
     vars, larder

\* World.FoodLeft and the Food map never drift apart, whatever the piles, the
\* number of ants and the order they arrive in.
THEOREM ColonyFoodLeftIsWhatLies == Spec => []FoodLeftIsWhatLies
BY InitCore, NextCore, InitPantry, StepPantry, InitCounted, StepCounted, PTL DEF Spec

LEMMA InitLarder == Init => Larder!Init
<1> SUFFICES ASSUME Init PROVE Larder!Init
  OBVIOUS
<1>1. Carriers = {}
  BY DEF Init, NewWorld, Carriers
<1> QED
  BY <1>1, FS_EmptySet DEF Init, NewWorld, Larder!Init

\* Every step of an engine is a step of Harvest or leaves it alone.
LEMMA StepLarder ==
  ASSUME Core, Pantry, FoodLeftIsWhatLies, EngineStep
  PROVE  [Larder!Next]_Larder!vars
<1>1. CASE Handling
  <2>1. /\ foodLeft' = IF PicksUp(committed) THEN foodLeft - 1 ELSE foodLeft
        /\ collected' = IF DropsOff(committed) THEN collected + 1 ELSE collected
    BY <1>1 DEF Handling, Handle
  <2>2. ~(PicksUp(committed) /\ DropsOff(committed))
    BY DEF PicksUp, DropsOff
  <2>3. IsFiniteSet(Carriers) /\ Cardinality(Carriers) \in Nat
    BY <1>1, CommitCarriers, FS_CardinalityType
  <2>4. CASE PicksUp(committed)
    <3>1. Cardinality(Carriers') = Cardinality(Carriers) + 1
      BY <1>1, <2>3, <2>4, CommitCarriers, FS_AddElement
    <3>2. foodLeft > 0
      BY <1>1, <2>4, CommitCounted
    <3> QED
      BY <2>1, <2>2, <2>4, <3>1, <3>2 DEF Larder!Next, Larder!PickUp
  <2>5. CASE DropsOff(committed)
    <3>1. Cardinality(Carriers') = Cardinality(Carriers) - 1
      BY <1>1, <2>3, <2>5, CommitCarriers, FS_RemoveElement
    <3>2. Cardinality(Carriers) > 0
      BY <1>1, <2>3, <2>5, CommitCarriers, FS_EmptySet
    <3> QED
      BY <2>1, <2>2, <2>5, <3>1, <3>2 DEF Larder!Next, Larder!DropOff
  <2>6. CASE ~PicksUp(committed) /\ ~DropsOff(committed)
    BY <1>1, <2>1, <2>6, CommitCarriers DEF Larder!vars
  <2> QED
    BY <2>4, <2>5, <2>6
<1>2. CASE UNCHANGED <<ants, foodLeft, collected>>
  BY <1>2 DEF Carriers, Larder!vars
<1> QED
  BY <1>1, <1>2 DEF EngineStep, Committing, LoopHead, Sensing, Decay, Observe, Finish, Cancel,
     vars, larder

\* Seen from outside, the grid, the walls, the trails and the order of the ants
\* vanish: every run of the engine is a run of Harvest, one unit at a time from
\* the ground to an ant and from an ant to the nest (tick.go 141-152).
THEOREM ColonyImplementsHarvest == Spec => ImplementsHarvest
<1>1. Core /\ Pantry /\ FoodLeftIsWhatLies /\ EngineStep => [Larder!Next]_Larder!vars
  BY StepLarder
<1> QED
  BY <1>1, InitCore, NextCore, InitPantry, StepPantry, InitCounted, StepCounted, InitLarder, PTL
  DEF Spec, ImplementsHarvest, Larder!Spec

(***************************************************************************)
(* Frames.                                                                 *)
(***************************************************************************)
\* What Run has shown so far: ticks that are over, the first of them tick 0,
\* which is due under every interval, and nothing marked done before the end.
FrameLog ==
  /\ FramesInOrder
  /\ \A n \in DOMAIN frames : frames[n].walls <=> frames[n].tick = 0
  /\ phase # "returned" => \A n \in DOMAIN frames : frames[n].tick < ticksRun
  /\ phase # "returned" /\ Every > 0 /\ ticksRun > 0 => frames # <<>>
  /\ frames # <<>> => Every > 0 /\ frames[1].tick = 0

\* A frame is labelled with a natural number.
LEMMA FrameTicks ==
  ASSUME NEW log \in Seq([tick : 0 .. Ticks, done : BOOLEAN, walls : BOOLEAN]),
         NEW m \in DOMAIN log
  PROVE  log[m].tick \in Nat
<1> DEFINE F == [tick : 0 .. Ticks, done : BOOLEAN, walls : BOOLEAN]
<1>1. log \in Seq(F)
  OBVIOUS
<1> HIDE DEF F
<1>2. log[m] \in F
  BY <1>1
<1> QED
  BY <1>2, ConfigAssumption DEF F

\* The frames that append one more, later than the others.
LEMMA AppendFrame ==
  ASSUME TypeOK, FrameLog, phase # "returned",
         NEW n \in 0 .. Ticks, n >= ticksRun, NEW done \in BOOLEAN,
         frames = <<>> => n = 0,
         frames' = Append(frames, Frame(n, done)), phase' = "returned" <=> done,
         done => n = ticksRun', Every > 0
  PROVE  /\ FramesInOrder'
         /\ \A m \in DOMAIN frames' : frames'[m].tick <= n
         /\ \A m \in DOMAIN frames' : frames'[m].walls <=> frames'[m].tick = 0
         /\ frames' # <<>> /\ frames'[1].tick = 0
<1> DEFINE F == [tick : 0 .. Ticks, done : BOOLEAN, walls : BOOLEAN]
<1>1. frames \in Seq(F) /\ Frame(n, done) \in F /\ Len(frames) \in Nat
  BY DEF TypeOK, Frame
<1> HIDE DEF F
<1>2. /\ DOMAIN frames = 1 .. Len(frames) /\ DOMAIN frames' = 1 .. Len(frames) + 1
      /\ Len(frames') = Len(frames) + 1
      /\ frames'[Len(frames) + 1] = Frame(n, done)
      /\ \A m \in 1 .. Len(frames) : frames'[m] = frames[m]
      /\ \A m \in 1 .. Len(frames) : frames[m] \in F
  BY <1>1
<1> USE DEF F
<1>3. \A m \in 1 .. Len(frames) : frames[m].tick \in Nat /\ frames[m].tick < ticksRun
  BY <1>2 DEF FrameLog
<1>4. n \in Nat /\ ticksRun \in Nat
  BY ConfigAssumption DEF TypeOK
<1>5. /\ Frame(n, done).tick = n /\ Frame(n, done).done = done
      /\ Frame(n, done).walls <=> n = 0
  BY DEF Frame
<1>6. Len(frames) = 0 => frames = <<>>
  BY <1>1
<1>7. \A m \in 1 .. Len(frames) : ~frames[m].done
  BY <1>2 DEF FrameLog, FramesInOrder
<1>8. \A m, k \in 1 .. Len(frames) : m < k => frames[m].tick < frames[k].tick
  BY <1>2 DEF FrameLog, FramesInOrder
<1>9. Len(frames) > 0 => frames[1].walls /\ frames[1].tick = 0
  BY <1>1 DEF FrameLog, FramesInOrder
<1>10. \A m, k \in DOMAIN frames' : m < k => frames'[m].tick < frames'[k].tick
  <2> SUFFICES ASSUME NEW m \in DOMAIN frames', NEW k \in DOMAIN frames', m < k
               PROVE  frames'[m].tick < frames'[k].tick
    OBVIOUS
  <2>1. m \in 1 .. Len(frames) /\ frames'[m].tick = frames[m].tick /\ frames'[m].tick < n
    BY <1>1, <1>2, <1>3, <1>4
  <2>2. CASE k \in 1 .. Len(frames)
    BY <1>2, <1>8, <2>1, <2>2
  <2>3. CASE k = Len(frames) + 1
    BY <1>2, <1>5, <2>1, <2>3
  <2> QED
    BY <1>1, <1>2, <2>2, <2>3
<1>11. frames'[1].walls /\ frames'[1].tick = 0
  <2>1. CASE Len(frames) = 0
    BY <1>2, <1>5, <1>6, <2>1
  <2>2. CASE Len(frames) > 0
    BY <1>1, <1>2, <1>9, <2>2
  <2> QED
    BY <1>1, <2>1, <2>2
<1>12. \A m \in DOMAIN frames' :
         frames'[m].done <=> (phase' = "returned" /\ m = Len(frames'))
  BY <1>1, <1>2, <1>5, <1>7
<1>13. \A m \in DOMAIN frames' :
         frames'[m].tick <= n /\ (frames'[m].walls <=> frames'[m].tick = 0)
  BY <1>1, <1>2, <1>3, <1>4, <1>5 DEF FrameLog
<1>14. phase' = "returned" => frames'[Len(frames')].tick = ticksRun'
  BY <1>2, <1>5
<1>15. frames' # <<>>
  BY <1>1, <1>2
<1> QED
  BY <1>10, <1>11, <1>12, <1>13, <1>14, <1>15 DEF FramesInOrder

LEMMA InitFrameLog == Init => FrameLog
BY ConfigAssumption DEF Init, FrameLog, FramesInOrder

\* Only Observe and Finish show something, and each shows a later tick.
LEMMA StepFrameLog == Core /\ FrameLog /\ EngineStep => FrameLog'
<1> SUFFICES ASSUME Core, FrameLog, EngineStep PROVE FrameLog'
  OBVIOUS
<1>1. TypeOK /\ Every \in Nat
  BY RunAssumption DEF Core
<1>2. CASE Observe
  <2>1. t \in 0 .. Ticks /\ t = ticksRun /\ ticksRun' = ticksRun + 1 /\ t \in Nat
    BY <1>1, <1>2, ConfigAssumption DEF Observe, TypeOK
  <2>2. phase = "observe" /\ phase' = "loop"
    BY <1>2 DEF Observe
  <2>3. CASE Due(t)
    <3>1. frames' = Append(frames, Frame(t, FALSE)) /\ Every > 0
      BY <1>2, <2>3 DEF Observe, Due
    <3>2. frames = <<>> => t = 0
      BY <2>1, <2>2, <3>1 DEF FrameLog
    <3>3. t >= ticksRun /\ phase # "returned" /\ (phase' = "returned" <=> FALSE)
      BY <2>1, <2>2
    <3>4. /\ FramesInOrder'
          /\ \A m \in DOMAIN frames' : frames'[m].tick <= t
          /\ \A m \in DOMAIN frames' : frames'[m].walls <=> frames'[m].tick = 0
          /\ frames' # <<>> /\ frames'[1].tick = 0
      BY <1>1, <2>1, <3>1, <3>2, <3>3, AppendFrame, Zenon
    <3>5. frames' \in Seq([tick : 0 .. Ticks, done : BOOLEAN, walls : BOOLEAN])
      BY <1>1, <2>1, <3>1, FrameType
    <3>6. \A m \in DOMAIN frames' : frames'[m].tick \in Nat
      BY <3>5, FrameTicks
    <3>7. \A m \in DOMAIN frames' : frames'[m].tick < ticksRun'
      BY <2>1, <3>4, <3>6
    <3> QED
      BY <2>2, <3>1, <3>4, <3>7 DEF FrameLog
  <2>4. CASE ~Due(t)
    <3>1. frames' = frames
      BY <1>2, <2>4 DEF Observe
    <3>2. Every > 0 => ticksRun > 0
      BY <1>1, <2>1, <2>4 DEF Due
    <3>3. \A m \in DOMAIN frames : frames[m].tick \in Nat
      BY <1>1, FrameTicks DEF TypeOK
    <3>4. \A m \in DOMAIN frames : frames[m].tick < ticksRun'
      BY <2>1, <2>2, <3>3 DEF FrameLog
    <3>5. FramesInOrder'
      BY <2>2, <3>1 DEF FrameLog, FramesInOrder
    <3> QED
      BY <2>2, <3>1, <3>2, <3>4, <3>5 DEF FrameLog
  <2> QED
    BY <2>3, <2>4
<1>3. CASE Finish
  <2>1. ticksRun \in 0 .. Ticks /\ ticksRun' = ticksRun /\ ticksRun \in Nat
    BY <1>1, <1>3, ConfigAssumption DEF Finish, TypeOK
  <2>2. phase = "final" /\ phase' = "returned"
    BY <1>3 DEF Finish
  <2>3. CASE Every > 0
    <3>1. frames' = Append(frames, Frame(ticksRun, TRUE))
      BY <1>3, <2>3 DEF Finish
    <3>2. frames = <<>> => ticksRun = 0
      BY <2>1, <2>2, <2>3 DEF FrameLog
    <3>3. ticksRun >= ticksRun /\ phase # "returned" /\ (phase' = "returned" <=> TRUE)
      BY <2>1, <2>2
    <3>4. /\ FramesInOrder'
          /\ \A m \in DOMAIN frames' : frames'[m].walls <=> frames'[m].tick = 0
          /\ frames' # <<>> /\ frames'[1].tick = 0
      BY <1>1, <2>1, <2>3, <3>1, <3>2, <3>3, AppendFrame, Zenon
    <3> QED
      BY <2>2, <2>3, <3>4 DEF FrameLog
  <2>4. CASE Every = 0
    <3>1. frames' = frames /\ frames = <<>>
      BY <1>3, <2>4 DEF Finish, FrameLog
    <3> QED
      BY <2>4, <3>1 DEF FrameLog, FramesInOrder
  <2> QED
    BY <1>1, <2>3, <2>4
<1>4. ASSUME UNCHANGED <<frames, ticksRun>>, phase = "returned" <=> phase' = "returned"
      PROVE  FrameLog'
  BY <1>4 DEF FrameLog, FramesInOrder
<1> QED
  BY <1>2, <1>3, <1>4 DEF EngineStep, Committing, Handling, LoopHead, Sensing, Decay, Cancel,
     vars, loop

\* Whatever the interval, the length of the run and the moment it is cancelled,
\* its observer sees ascending ticks, the walls first and the end last.
THEOREM ColonyFramesInOrder == Spec => []FramesInOrder
<1>1. FrameLog => FramesInOrder
  BY DEF FrameLog
<1> QED
  BY <1>1, InitCore, NextCore, InitFrameLog, StepFrameLog, PTL DEF Spec

(***************************************************************************)
(* Pheromone.                                                              *)
(***************************************************************************)
LEMMA InitClean == Init => CleanBuffers
BY DEF Init, NewWorld, CleanBuffers

\* Decay alone writes the next buffers, and clears what it swaps out.
LEMMA StepClean == CleanBuffers /\ EngineStep => CleanBuffers'
BY DEF CleanBuffers, EngineStep, Committing, LoopHead, Sensing, Decay, Recycled, Observe, Finish,
       Cancel, vars, grids

\* What a phase C that starts from clean buffers shows the next tick.
LEMMA StepDecayed ==
  ASSUME CleanBuffers, EngineStep, phase = "commit", phase' = "observe"
  PROVE  /\ pheroFood' = [c \in Cells |-> Decayed(pheroFood, depFood, c)]
         /\ pheroHome' = [c \in Cells |-> Decayed(pheroHome, depHome, c)]
<1>1. Decay
  BY DEF EngineStep, Committing, LoopHead, Sensing, Observe, Finish, Cancel, vars
<1>2. \A cur, dep : Written(cur, dep, Zero) = [c \in Cells |-> Decayed(cur, dep, c)]
  BY DEF Written, Zero
<1> QED
  BY <1>1, <1>2 DEF Decay, CleanBuffers

\* The write buffers are empty whenever a tick can end, so phase C shows the
\* next tick what it decayed in this one and nothing older.
THEOREM ColonyDecayStartsFromCleanBuffers == Spec => DecayStartsFromCleanBuffers
<1> DEFINE Clean == phase = "commit" /\ phase' = "observe" =>
                      /\ pheroFood' = [c \in Cells |-> Decayed(pheroFood, depFood, c)]
                      /\ pheroHome' = [c \in Cells |-> Decayed(pheroHome, depHome, c)]
<1>1. CleanBuffers /\ EngineStep => Clean
  BY StepDecayed
<1>2. CleanBuffers /\ EngineStep => [Clean]_vars
  BY <1>1
<1> QED
  BY <1>2, InitCore, NextCore, InitClean, StepClean, PTL DEF Spec, DecayStartsFromCleanBuffers
=============================================================================
