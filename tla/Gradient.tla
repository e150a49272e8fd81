------------------------------ MODULE Gradient ------------------------------
(***************************************************************************)
(* The gradient engine (internal/engine/gradient): the reference engine    *)
(* with one change.  An ant counts the ticks since its last anchor, a      *)
(* drop-off or the start of the run while it searches, a pick-up while it  *)
(* carries, and what it lays halves with every HalfLife of them.           *)
(***************************************************************************)
EXTENDS Colony

CONSTANTS
  HalfLife,   \* falloffHalfLife, 16
  WordWidth   \* the width of a deposit's word, 32

ASSUME FalloffAssumption ==
  /\ HalfLife \in Nat \ {0} /\ WordWidth \in Nat
  /\ DepositFood < 2 ^ WordWidth /\ DepositHome < 2 ^ WordWidth

\* Arithmetic, for the exponents of a run: no ant counts more steps than there
\* are ticks, and no two cells are further apart than the grid is wide and high.
ASSUME PowerAssumption ==
  /\ 2 ^ 0 = 1
  /\ \A m, n \in 0 .. Ticks + Width + Height : 2 ^ m \in Nat \ {0} /\ (m <= n => 2 ^ m <= 2 ^ n)

VARIABLE steps   \* Ant.Steps

gradientVars == <<vars, steps>>

\* base >> (n / HalfLife).  Mutation: the same mark however far the ant is.
FalloffFlat(base, n) == base
Falloff(base, n) ==
  IF n \div HalfLife >= WordWidth THEN 0 ELSE base \div 2 ^ (n \div HalfLife)

GradientInit == Init /\ steps = [i \in Ants |-> 0]

(***************************************************************************)
(* The loop of Run, phase A and phase C do not look at steps.              *)
(***************************************************************************)
GradientLoopHead == LoopHead /\ UNCHANGED steps
GradientSense    == Sense    /\ UNCHANGED steps
GradientDecay    == Decay    /\ UNCHANGED steps
GradientObserve  == Observe  /\ UNCHANGED steps
GradientFinish   == Finish   /\ UNCHANGED steps
GradientCancel   == Cancel   /\ UNCHANGED steps

\* Steps is counted before the anchor resets it.  Mutations: a drop-off is no
\* anchor; a tick without a move is not counted but starts the way again.
StepsIfCarrying(i) == IF PicksUp(i) THEN 0 ELSE steps[i] + 1
StepsIfMoving(i) ==
  IF PicksUp(i) \/ DropsOff(i) \/ intents[i].blocked THEN 0 ELSE steps[i] + 1
StepsNow(i) == IF PicksUp(i) \/ DropsOff(i) THEN 0 ELSE steps[i] + 1

GradientCommit ==
  /\ phase = "commit" /\ committed < AntCount
  /\ Handle(committed)
  /\ steps' = [steps EXCEPT ![committed] = StepsNow(committed)]
  /\ Mark(committed, Falloff(DepositFood, StepsNow(committed)),
                     Falloff(DepositHome, StepsNow(committed)))
  /\ committed' = committed + 1
  /\ UNCHANGED <<stream, drawn, pheroFood, pheroHome, nextFood, nextHome, intents, phase,
                 loop, cancelled>>

GradientReturned == phase = "returned" /\ UNCHANGED gradientVars

GradientRun ==
  \/ GradientLoopHead \/ GradientSense \/ GradientCommit \/ GradientDecay
  \/ GradientObserve \/ GradientFinish
GradientNext == GradientRun \/ GradientCancel \/ GradientReturned

GradientSpec == GradientInit /\ [][GradientNext]_gradientVars /\ WF_gradientVars(GradientRun)
-----------------------------------------------------------------------------
(***************************************************************************)
(* Properties.                                                             *)
(***************************************************************************)
Far(c, e) ==
  LET dx == AbsDiff(c[1], e[1])
      dy == AbsDiff(c[2], e[2])
  IN IF dx > dy THEN dx ELSE dy

\* Steps measures the way an ant has walked since its anchor (gradient.go 73-76):
\* it never falls short of the straight way back to the nest while the ant
\* searches, nor of the straight way to the pile it took its load from.
StepsCoverTheWay ==
  \A i \in Ants :
    IF ants[i].hasFood
    THEN \E n \in DOMAIN Piles : Far(Piles[n].at, ants[i].pos) <= steps[i]
    ELSE Cheb(ants[i].pos) <= steps[i]

\* The field encodes closeness, not traffic (gradient.go 21-27): all the ants
\* together leave on a cell, in one tick, no more than they could if each had
\* come straight from the nest or, loaded, from the nearest pile.
Halved(base, n) == base \div 2 ^ (n \div HalfLife)
MarksFadeWithDistance ==
  \A c \in Cells :
    /\ depHome[c] <= AntCount * Halved(DepositHome, Cheb(c))
    /\ depFood[c] > 0 => \E n \in DOMAIN Piles :
         depFood[c] <= AntCount * Halved(DepositFood, Far(Piles[n].at, c))

\* An ant marks after it has picked up or dropped off (tick.go 156-170): the
\* first mark of a trip lies on its anchor, in the field of the new trip, and
\* in full, however long the trip before was.
TripStartsWithFullMark ==
  [][\A i \in Ants :
       phase = "commit" /\ phase' = "commit" /\ ants'[i].hasFood # ants[i].hasFood =>
         LET c == ants'[i].pos IN
         IF ants'[i].hasFood
         THEN depFood'[c] = AddSat(depFood[c], DepositFood)
         ELSE c = Nest /\ depHome'[c] = AddSat(depHome[c], DepositHome)]_gradientVars
=============================================================================
