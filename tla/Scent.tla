------------------------------- MODULE Scent -------------------------------
(***************************************************************************)
(* The scent engine (internal/engine/scent): the gradient engine with one  *)
(* change.  A searching ant smells the nearest pile that still holds food  *)
(* within Radius, and a step that brings it closer scores ScentBias more.  *)
(***************************************************************************)
EXTENDS Gradient

CONSTANT Radius   \* scentRadius, 24

ASSUME RadiusAssumption == Radius \in Nat

ScentBias == MaxLevel \div 4

ScentInit == GradientInit

(***************************************************************************)
(* Phase A: nearestScent scans the piles in the order of the configuration *)
(* and returns the place of the one it keeps, 0 if it smells none.         *)
(***************************************************************************)
\* Mutations: an empty pile still smells; among equals the last pile wins; a
\* step that keeps the distance is rewarded too.
SmellsByRadius(n, c) == Far(Piles[n].at, c) <= Radius
Smells(n, c) == food[Piles[n].at] > 0 /\ Far(Piles[n].at, c) <= Radius

NearerOrLater(m, n, c) == Far(Piles[m].at, c) <= Far(Piles[n].at, c)
Nearer(m, n, c) == Far(Piles[m].at, c) < Far(Piles[n].at, c)

NearestScent(c) ==
  LET scan[n \in 0 .. Len(Piles)] ==
        LET kept == IF n = 0 THEN 0 ELSE scan[n - 1]
        IN IF n > 0 /\ Smells(n, c) /\ (kept = 0 \/ Nearer(n, kept, c)) THEN n ELSE kept
  IN scan[Len(Piles)]

NotFarther(n, from, c) == Far(Piles[n].at, c) <= Far(Piles[n].at, from)
Closer(n, from, c) == Far(Piles[n].at, c) < Far(Piles[n].at, from)

Pull(a, c) ==
  IF ~a.hasFood /\ NearestScent(a.pos) # 0 /\ Closer(NearestScent(a.pos), a.pos, c)
  THEN ScentBias ELSE 0

Reached(a, k) == Ahead(a.pos, Cone(Heading(a))[k])
ScentScore(a, k) ==
  Score(a, IF a.hasFood THEN pheroHome ELSE pheroFood, Reached(a, k)) + Pull(a, Reached(a, k))

ScentBest(a) ==
  CHOOSE j \in Candidates(a) : \A k \in Candidates(a) :
    \/ ScentScore(a, j) > ScentScore(a, k)
    \/ ScentScore(a, j) = ScentScore(a, k) /\ j <= k

ScentIntent(i) ==
  LET a    == ants[i]
      roll == Intn(stream[i][drawn[i]], RandomDen)
      pick == Intn(stream[i][drawn[i] + 1], 3)
  IN IF roll < RandomNum THEN Step(a, Cone(Heading(a))[pick + 1])
     ELSE IF Candidates(a) = {} THEN Stay(a, Heading(a))
     ELSE Step(a, Cone(Heading(a))[ScentBest(a)])

ScentSense ==
  /\ phase = "sense"
  /\ intents' = [i \in Ants |-> ScentIntent(i)]
  /\ drawn' = [i \in Ants |-> drawn[i] + 2]
  /\ phase' = "commit"
  /\ UNCHANGED <<ants, stream, larder, grids, committed, loop, cancelled, steps>>

(***************************************************************************)
(* The loop of Run and the other phases are those of the gradient engine.  *)
(***************************************************************************)
ScentLoopHead == GradientLoopHead
ScentCommit   == GradientCommit
ScentDecay    == GradientDecay
ScentObserve  == GradientObserve
ScentFinish   == GradientFinish

ScentRun ==
  \/ ScentLoopHead \/ ScentSense \/ ScentCommit \/ ScentDecay
  \/ ScentObserve \/ ScentFinish
ScentNext == ScentRun \/ GradientCancel \/ GradientReturned

ScentSpec == ScentInit /\ [][ScentNext]_gradientVars /\ WF_gradientVars(ScentRun)
-----------------------------------------------------------------------------
(***************************************************************************)
(* Properties.                                                             *)
(***************************************************************************)
\* From every cell the scan finds a pile that still holds food and is in
\* reach, none such is nearer, and among the nearest the first of the
\* configuration is taken (tick.go 104-110); it finds none only if none is.
SmellsNearestLivePile ==
  \A c \in Cells :
    LET live == {n \in DOMAIN Piles :
                   food[Piles[n].at] > 0 /\ Far(Piles[n].at, c) <= Radius}
        s    == NearestScent(c)
    IN IF live = {} THEN s = 0
       ELSE /\ s \in live
            /\ \A n \in live :
                 \/ Far(Piles[s].at, c) < Far(Piles[n].at, c)
                 \/ Far(Piles[s].at, c) = Far(Piles[n].at, c) /\ s <= n

\* What chooseMove owes a searching ant that does not wander: it turns down a
\* step towards the pile it smells only for a trail stronger by a quarter of
\* saturation (scent.go 13-16).
LedBySmell ==
  \A i \in Ants :
    phase = "sense" /\ phase' = "commit" /\ ~ants[i].hasFood
    /\ ~Wandered(i, drawn[i]) /\ NearestScent(ants[i].pos) # 0 =>
      LET from   == ants[i].pos
          pile   == Piles[NearestScent(from)].at
          better == {c \in {Reached(ants[i], k) : k \in Candidates(ants[i])} :
                       Far(c, pile) < Far(from, pile)}
      IN \A c \in better :
           \/ intents'[i].pos \in better
           \/ pheroFood[intents'[i].pos] >= pheroFood[c] + MaxLevel \div 4

\* With the last pile in reach empty the pull stops at once (scent.go 16-17), also
\* when a unit was taken in the very tick the ant was on its way to it: the ant
\* decides as an ant of the gradient engine would.
FreeOfSpentPiles ==
  \A i \in Ants :
    phase = "sense" /\ phase' = "commit"
    /\ (\A c \in Cells : Far(c, ants[i].pos) <= Radius => food[c] = 0) =>
      intents'[i] = Intent(i)
=============================================================================
