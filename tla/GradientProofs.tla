--------------------------- MODULE GradientProofs ---------------------------
(***************************************************************************)
(* The gradient and the scent engine, proved for every configuration and   *)
(* every HalfLife and Radius.  Both take EngineSteps, so what ColonyProofs *)
(* shows of those is inherited; what is new is the way an ant has walked,  *)
(* the mark it leaves, and the pile a searching ant smells.                *)
(***************************************************************************)
EXTENDS Scent, ColonyProofs

(***************************************************************************)
(* The scan of the piles.                                                  *)
(***************************************************************************)
\* What the scan keeps after pile n, from what it kept before.
Kept(scan, n, c) ==
  LET kept == IF n = 0 THEN 0 ELSE scan[n - 1]
  IN IF n > 0 /\ Smells(n, c) /\ (kept = 0 \/ Nearer(n, kept, c)) THEN n ELSE kept

IsScan(f, m, c) == f = [n \in 0 .. m |-> Kept(f, n, c)]

\* The loop runs to the end of the piles: there is a function of what it keeps.
LEMMA ScanExists ==
  ASSUME NEW c
  PROVE  \A m \in 0 .. Len(Piles) : \E f : IsScan(f, m, c)
<1> DEFINE S == {m \in 0 .. Len(Piles) : \E f : IsScan(f, m, c)}
<1>1. Len(Piles) \in Nat
  BY WorldAssumption
<1>2. 0 \in S
  <2> DEFINE g == [n \in 0 .. 0 |-> 0]
  <2>1. \A n \in 0 .. 0 : Kept(g, n, c) = 0
    BY DEF Kept
  <2>2. IsScan(g, 0, c)
    BY <2>1 DEF IsScan
  <2> HIDE DEF g
  <2> QED
    BY <1>1, <2>2
<1>3. ASSUME NEW m \in 0 .. Len(Piles) - 1, m \in S
      PROVE  m + 1 \in S
  <2>1. PICK f : IsScan(f, m, c)
    BY <1>3
  <2> DEFINE g == [n \in 0 .. m + 1 |-> IF n <= m THEN f[n] ELSE Kept(f, n, c)]
  <2>2. \A n \in 0 .. m : g[n] = f[n]
    BY <1>1
  <2>3. \A n \in 0 .. m + 1 : Kept(g, n, c) = Kept(f, n, c)
    <3> SUFFICES ASSUME NEW n \in 0 .. m + 1 PROVE Kept(g, n, c) = Kept(f, n, c)
      OBVIOUS
    <3>1. n > 0 => n - 1 \in 0 .. m
      BY <1>1
    <3>2. n > 0 => g[n - 1] = f[n - 1]
      BY <2>2, <3>1
    <3> HIDE DEF g
    <3> QED
      BY <3>2 DEF Kept
  <2>4. \A n \in 0 .. m : f[n] = Kept(f, n, c)
    BY <2>1 DEF IsScan
  <2>5. \A n \in 0 .. m + 1 : g[n] = Kept(g, n, c)
    BY <1>1, <2>3, <2>4
  <2>6. g = [n \in 0 .. m + 1 |-> g[n]]
    OBVIOUS
  <2> HIDE DEF g
  <2>7. IsScan(g, m + 1, c)
    BY <2>5, <2>6 DEF IsScan
  <2> QED
    BY <1>1, <2>7
<1> HIDE DEF S
<1>4. 0 .. Len(Piles) \subseteq S
  BY <1>1, <1>2, <1>3, UpTo
<1> QED
  BY <1>4 DEF S

\* The pile nearestScent returns is what its loop keeps at the end.
LEMMA ScanFound ==
  ASSUME NEW c
  PROVE  \E f : IsScan(f, Len(Piles), c) /\ NearestScent(c) = f[Len(Piles)]
<1> DEFINE h == CHOOSE f : f = [n \in 0 .. Len(Piles) |-> Kept(f, n, c)]
<1>1. \E f : f = [n \in 0 .. Len(Piles) |-> Kept(f, n, c)]
  <2>1. Len(Piles) \in 0 .. Len(Piles)
    BY WorldAssumption
  <2> QED
    BY <2>1, ScanExists DEF IsScan
<1>2. h = [n \in 0 .. Len(Piles) |-> Kept(h, n, c)]
  BY <1>1, Zenon
<1>3. NearestScent(c) = h[Len(Piles)]
  BY DEF NearestScent, Kept
<1> QED
  BY <1>2, <1>3, Zenon DEF IsScan

\* The distance of two cells, and what one step can change of it.
LEMMA FarType ==
  ASSUME NEW c \in Cells, NEW e \in Cells
  PROVE  /\ Far(c, e) \in Nat /\ Far(c, e) = Far(e, c) /\ Far(c, c) = 0
         /\ Far(c, e) <= Width + Height
<1>1. /\ c[1] \in 0 .. Width - 1 /\ c[2] \in 0 .. Height - 1
      /\ e[1] \in 0 .. Width - 1 /\ e[2] \in 0 .. Height - 1
      /\ Width \in Nat /\ Height \in Nat
  BY ConfigAssumption DEF Cells
<1> QED
  BY <1>1 DEF Far, AbsDiff

LEMMA FarNext ==
  ASSUME NEW c \in Cells, NEW d \in Cells, NEW e \in Cells, NextTo(d, c)
  PROVE  Far(e, d) <= Far(e, c) + 1
<1>1. /\ c[1] \in Int /\ c[2] \in Int /\ d[1] \in Int /\ d[2] \in Int
      /\ e[1] \in Int /\ e[2] \in Int
  BY ConfigAssumption DEF Cells
<1> QED
  BY <1>1 DEF Far, AbsDiff, NextTo

LEMMA ChebIsFar == \A c : Cheb(c) = Far(c, Nest)
BY DEF Cheb, Far

\* Of the first m piles: s is the one to smell, 0 if there is none.
Nearest(s, m, c) ==
  /\ s = 0 => \A n \in 1 .. m : ~Smells(n, c)
  /\ s # 0 =>
       /\ s \in 1 .. m /\ Smells(s, c)
       /\ \A n \in 1 .. m : Smells(n, c) =>
            \/ Far(Piles[s].at, c) < Far(Piles[n].at, c)
            \/ Far(Piles[s].at, c) = Far(Piles[n].at, c) /\ s <= n

\* After pile m the scan keeps the nearest of the first m, the first of equals.
LEMMA ScanNearest ==
  ASSUME NEW c \in Cells, NEW f, IsScan(f, Len(Piles), c)
  PROVE  \A m \in 0 .. Len(Piles) : Nearest(f[m], m, c)
<1> DEFINE S == {m \in 0 .. Len(Piles) : Nearest(f[m], m, c)}
<1>1. Len(Piles) \in Nat
  BY WorldAssumption
<1>2. \A n \in 1 .. Len(Piles) : Far(Piles[n].at, c) \in Nat
  <2> SUFFICES ASSUME NEW n \in 1 .. Len(Piles) PROVE Far(Piles[n].at, c) \in Nat
    OBVIOUS
  <2>1. Piles[n].at \in Cells
    BY WorldAssumption
  <2> QED
    BY <2>1, FarType
<1>3. \A n \in 0 .. Len(Piles) : f[n] = Kept(f, n, c)
  BY DEF IsScan
<1>4. 0 \in S
  <2>1. f[0] = 0
    BY <1>1, <1>3 DEF Kept
  <2> QED
    BY <1>1, <2>1 DEF Nearest
<1>5. ASSUME NEW m \in 0 .. Len(Piles) - 1, m \in S
      PROVE  m + 1 \in S
  <2> DEFINE s == f[m]
             k == m + 1
  <2>1. k \in 1 .. Len(Piles) /\ k - 1 = m /\ k > 0 /\ 1 .. k = (1 .. m) \cup {k}
    BY <1>1
  <2>2. f[k] = IF Smells(k, c) /\ (s = 0 \/ Nearer(k, s, c)) THEN k ELSE s
    BY <1>1, <1>3, <2>1 DEF Kept
  <2>3. Nearest(s, m, c)
    BY <1>5
  <2>4. Far(Piles[k].at, c) \in Nat /\ (s # 0 => Far(Piles[s].at, c) \in Nat /\ s \in 1 .. m)
    <3>1. s # 0 => s \in 1 .. m
      BY <2>3 DEF Nearest
    <3>2. 1 .. m \subseteq 1 .. Len(Piles)
      BY <1>1
    <3> HIDE DEF s, k
    <3> QED
      BY <1>2, <2>1, <3>1, <3>2
  <2>5. \A n \in 1 .. m : n < k /\ Far(Piles[n].at, c) \in Nat
    BY <1>1, <1>2
  <2> HIDE DEF s, k
  <2>6. CASE Smells(k, c) /\ (s = 0 \/ Nearer(k, s, c))
    <3>1. f[k] = k /\ k # 0
      BY <2>1, <2>2, <2>6
    <3>2. ASSUME NEW n \in 1 .. m, Smells(n, c)
          PROVE  Far(Piles[k].at, c) < Far(Piles[n].at, c)
      <4>1. s # 0
        BY <2>3, <3>2 DEF Nearest
      <4>2. Far(Piles[k].at, c) < Far(Piles[s].at, c)
        BY <2>6, <4>1 DEF Nearer
      <4>3. Far(Piles[s].at, c) <= Far(Piles[n].at, c)
        <5>1. \/ Far(Piles[s].at, c) < Far(Piles[n].at, c)
              \/ Far(Piles[s].at, c) = Far(Piles[n].at, c)
          BY <2>3, <3>2, <4>1 DEF Nearest
        <5> QED
          BY <2>4, <2>5, <4>1, <5>1
      <4> QED
        BY <2>4, <2>5, <4>1, <4>2, <4>3
    <3> QED
      BY <2>1, <2>6, <3>1, <3>2 DEF Nearest, k
  <2>7. CASE ~(Smells(k, c) /\ (s = 0 \/ Nearer(k, s, c)))
    <3>1. f[k] = s
      BY <2>2, <2>7
    <3>2. CASE s = 0
      BY <2>1, <2>3, <2>7, <3>1, <3>2 DEF Nearest, k
    <3>3. CASE s # 0
      <4>1. ASSUME Smells(k, c)
            PROVE  \/ Far(Piles[s].at, c) < Far(Piles[k].at, c)
                   \/ Far(Piles[s].at, c) = Far(Piles[k].at, c) /\ s <= k
        <5>1. ~(Far(Piles[k].at, c) < Far(Piles[s].at, c))
          BY <2>7, <3>3, <4>1 DEF Nearer
        <5>2. s < k
          BY <2>4, <2>5, <3>3
        <5> QED
          BY <1>1, <2>1, <2>4, <3>3, <5>1, <5>2
      <4> QED
        BY <2>1, <2>3, <3>1, <3>3, <4>1 DEF Nearest, k
    <3> QED
      BY <3>2, <3>3
  <2> QED
    BY <2>6, <2>7 DEF k
<1> HIDE DEF S
<1>6. 0 .. Len(Piles) \subseteq S
  BY <1>1, <1>4, <1>5, UpTo
<1> QED
  BY <1>6 DEF S

\* Whatever the piles and what is left of them, the smell leads to the nearest
\* live one in reach.
LEMMA SmellIsNearest == SmellsNearestLivePile
<1> SUFFICES ASSUME NEW c \in Cells
             PROVE  Nearest(NearestScent(c), Len(Piles), c)
  <2>1. DOMAIN Piles = 1 .. Len(Piles) /\ 0 \notin DOMAIN Piles
    BY WorldAssumption
  <2> QED
    BY <2>1 DEF SmellsNearestLivePile, Nearest, Smells
<1>1. Len(Piles) \in 0 .. Len(Piles)
  BY WorldAssumption
<1> QED
  BY <1>1, ScanFound, ScanNearest

(***************************************************************************)
(* The two engines take the steps ColonyProofs speaks of.                  *)
(***************************************************************************)
\* The score of a place of the cone is a natural number, smell included.
LEMMA ScoreTypes ==
  ASSUME Core, NEW i \in Ants, NEW k \in Candidates(ants[i])
  PROVE  LET a     == ants[i]
             trail == IF a.hasFood THEN pheroHome ELSE pheroFood
         IN /\ k \in 1 .. 3 /\ Reached(a, k) \in Cells /\ Passable(Reached(a, k))
            /\ Score(a, trail, Reached(a, k)) \in Nat
            /\ Pull(a, Reached(a, k)) \in Nat /\ ScentScore(a, k) \in Nat
            /\ ScentScore(a, k) = Score(a, trail, Reached(a, k)) + Pull(a, Reached(a, k))
<1> DEFINE a == ants[i]
           trail == IF a.hasFood THEN pheroHome ELSE pheroFood
           c == Reached(a, k)
<1>1. k \in 1 .. 3 /\ c \in Cells /\ Passable(c)
  BY DEF Candidates, Passable, Reached
<1>2. trail[c] \in Nat /\ a.pos \in Cells
  BY <1>1, ConfigAssumption DEF Core, TypeOK, Levels
<1>3. Cheb(c) \in Nat /\ Cheb(a.pos) \in Nat /\ NestBias \in Nat /\ ScentBias \in Nat
  BY <1>1, <1>2, ChebType, ConfigAssumption DEF NestBias, ScentBias
<1>4. Score(a, trail, c) \in Nat
  BY <1>2, <1>3 DEF Score
<1>5. Pull(a, c) \in Nat
  BY <1>3 DEF Pull
<1> QED
  BY <1>1, <1>4, <1>5 DEF ScentScore

\* A best place of the cone under the scores of the scent engine.
IsBest(a, j) ==
  \A k \in Candidates(a) :
    \/ ScentScore(a, j) > ScentScore(a, k)
    \/ ScentScore(a, j) = ScentScore(a, k) /\ j <= k

LEMMA ScentBestIsBest ==
  ASSUME Core, NEW i \in Ants, Candidates(ants[i]) # {}
  PROVE  ScentBest(ants[i]) \in Candidates(ants[i]) /\ IsBest(ants[i], ScentBest(ants[i]))
<1> DEFINE a == ants[i]
           S == Candidates(a)
           f == [k \in S |-> ScentScore(a, k)]
<1>1. S \in SUBSET {1, 2, 3} /\ S # {}
  BY DEF Candidates
<1>2. f \in [S -> Nat] /\ \A k \in S : f[k] = ScentScore(a, k)
  BY ScoreTypes
<1> HIDE DEF f
<1>3. \E j \in S : \A k \in S : f[j] > f[k] \/ (f[j] = f[k] /\ j <= k)
  BY <1>1, <1>2, MaxOfThree
<1>4. \E j \in Candidates(a) : \A k \in Candidates(a) :
        \/ ScentScore(a, j) > ScentScore(a, k)
        \/ ScentScore(a, j) = ScentScore(a, k) /\ j <= k
  BY <1>2, <1>3
<1> QED
  BY <1>4 DEF ScentBest, IsBest

\* A searching ant of the scent engine decides as soundly as any other.
LEMMA ScentSound == Core /\ ScentSense => Sensing
<1> SUFFICES ASSUME Core, ScentSense PROVE Sensing
  OBVIOUS
<1>1. \A i \in Ants : SoundIntent(ants[i], Intn(stream[i][drawn[i]], RandomDen), ScentIntent(i))
  <2> SUFFICES ASSUME NEW i \in Ants
               PROVE  SoundIntent(ants[i], Intn(stream[i][drawn[i]], RandomDen), ScentIntent(i))
    OBVIOUS
  <2> DEFINE roll == Intn(stream[i][drawn[i]], RandomDen)
             pick == Intn(stream[i][drawn[i] + 1], 3)
             best == ScentBest(ants[i])
  <2>1. roll \in Nat /\ pick \in 0 .. 2
    BY Draws DEF ScentSense
  <2>2. ants[i] \in AntType /\ ants[i].pos \notin WallCells
    BY DEF Core, TypeOK, AntType
  <2>3. Candidates(ants[i]) # {} => best \in Candidates(ants[i])
    BY ScentBestIsBest
  <2>4. ScentIntent(i) = IF roll < RandomNum THEN Step(ants[i], Cone(Heading(ants[i]))[pick + 1])
                         ELSE IF Candidates(ants[i]) = {} THEN Stay(ants[i], Heading(ants[i]))
                         ELSE Step(ants[i], Cone(Heading(ants[i]))[best])
    BY DEF ScentIntent
  <2> HIDE DEF roll, pick, best
  <2> QED
    BY <2>1, <2>2, <2>3, <2>4, DecisionSound DEF roll
<1>2. \A i \in Ants : ScentIntent(i) \in IntentType
  BY <1>1 DEF SoundIntent
<1> QED
  BY <1>1, <1>2 DEF ScentSense, Sensing

\* What the two engines share: the steps that are not a commit leave steps alone.
QuietStep == Sensing \/ Decay \/ LoopHead \/ Observe \/ Finish \/ Cancel \/ UNCHANGED vars
VariantStep == GradientCommit \/ (QuietStep /\ UNCHANGED steps)

LEMMA GradientSteps == Core /\ [GradientNext]_gradientVars => VariantStep
BY SenseSound DEF GradientNext, GradientRun, GradientLoopHead, GradientSense, GradientDecay,
   GradientObserve, GradientFinish, GradientCancel, GradientReturned, gradientVars,
   VariantStep, QuietStep

LEMMA ScentSteps == Core /\ [ScentNext]_gradientVars => VariantStep
<1>1. ScentSense => UNCHANGED steps
  BY DEF ScentSense
<1> QED
  BY <1>1, ScentSound DEF ScentNext, ScentRun, ScentLoopHead, ScentCommit, ScentDecay,
     ScentObserve, ScentFinish, GradientLoopHead, GradientDecay, GradientObserve, GradientFinish,
     GradientCancel, GradientReturned, gradientVars, VariantStep, QuietStep

\* No ant counts more steps than ticks have begun.
Walked ==
  /\ steps \in [Ants -> Nat]
  /\ \A i \in Ants :
       steps[i] <= t + IF phase = "observe" \/ (phase = "commit" /\ i < committed) THEN 1 ELSE 0

\* What is left of a mark after n steps.
LEMMA HalvedType ==
  ASSUME NEW base \in Nat, NEW m \in 0 .. Ticks + Width + Height,
         NEW n \in 0 .. Ticks + Width + Height, m <= n
  PROVE  Halved(base, m) \in Nat /\ Halved(base, n) <= Halved(base, m)
<1>1. /\ HalfLife \in Nat \ {0} /\ Ticks + Width + Height \in Nat /\ 1 \in Nat \ {0}
      /\ 1 <= HalfLife /\ HalfLife <= HalfLife /\ n <= n /\ m \in Nat /\ n \in Nat
  BY FalloffAssumption, ConfigAssumption
<1>2. /\ m \div HalfLife \in Nat /\ n \div HalfLife \in Nat
      /\ m \div HalfLife <= n \div HalfLife
  BY <1>1, DivMonotone
<1>3. n \div HalfLife <= n \div 1
  BY <1>1, DivMonotone
<1>4. n \div 1 = n
  BY <1>1
<1>5. /\ m \div HalfLife \in 0 .. Ticks + Width + Height
      /\ n \div HalfLife \in 0 .. Ticks + Width + Height
  BY <1>1, <1>2, <1>3, <1>4
<1>6. /\ 2 ^ (m \div HalfLife) \in Nat \ {0} /\ 2 ^ (n \div HalfLife) \in Nat \ {0}
      /\ 2 ^ (m \div HalfLife) <= 2 ^ (n \div HalfLife)
  BY <1>2, <1>5, PowerAssumption
<1>7. base <= base
  OBVIOUS
<1> QED
  BY <1>6, <1>7, DivMonotone DEF Halved

LEMMA FalloffType ==
  ASSUME NEW base \in Nat, NEW n \in 0 .. Ticks + Width + Height
  PROVE  Falloff(base, n) \in Nat /\ Falloff(base, n) <= Halved(base, n)
<1>1. n <= n
  BY ConfigAssumption
<1>2. Halved(base, n) \in Nat
  BY <1>1, HalvedType
<1> QED
  BY <1>2 DEF Falloff, Halved

\* A mark laid on the anchor is laid in full.
LEMMA FalloffFull ==
  /\ Falloff(DepositFood, 0) = DepositFood
  /\ Falloff(DepositHome, 0) = DepositHome
<1>1. 0 \div HalfLife = 0 /\ WordWidth \in Nat
  BY FalloffAssumption
<1>2. DepositFood \in Nat /\ DepositHome \in Nat
  BY ConfigAssumption
<1>3. 2 ^ 0 = 1
  BY PowerAssumption
<1>4. /\ Falloff(DepositFood, 0) = IF 0 >= WordWidth THEN 0 ELSE DepositFood \div 2 ^ 0
      /\ Falloff(DepositHome, 0) = IF 0 >= WordWidth THEN 0 ELSE DepositHome \div 2 ^ 0
  BY <1>1, Zenon DEF Falloff
<1>5. CASE WordWidth = 0
  <2>1. DepositFood < 2 ^ 0 /\ DepositHome < 2 ^ 0
    BY <1>5, FalloffAssumption
  <2> QED
    BY <1>2, <1>3, <1>4, <1>5, <2>1
<1>6. CASE WordWidth # 0
  <2>1. ~(0 >= WordWidth)
    BY <1>1, <1>6
  <2>2. DepositFood \div 1 = DepositFood /\ DepositHome \div 1 = DepositHome
    BY <1>2
  <2> QED
    BY <1>3, <1>4, <2>1, <2>2
<1> QED
  BY <1>5, <1>6

\* The counter after a commit fits the ticks of the run.
LEMMA StepsNowType ==
  ASSUME Core, Walked, GradientCommit
  PROVE  /\ committed \in Ants /\ committed \in Nat
         /\ StepsNow(committed) \in 0 .. t + 1 /\ t + 1 \in 1 .. Ticks
         /\ StepsNow(committed) \in 0 .. Ticks + Width + Height
         /\ steps' = [steps EXCEPT ![committed] = StepsNow(committed)]
<1>1. committed \in Ants /\ committed \in Nat /\ phase = "commit"
  BY ConfigAssumption DEF GradientCommit, Core, TypeOK, Ants
<1>2. t \in Nat /\ t < Ticks /\ Ticks \in Nat /\ Width \in Nat /\ Height \in Nat
  BY <1>1, ConfigAssumption DEF Core, TypeOK
<1>3. steps[committed] \in Nat /\ steps[committed] <= t
  BY <1>1, <1>2 DEF Walked
<1>4. StepsNow(committed) \in 0 .. t + 1
  BY <1>2, <1>3 DEF StepsNow
<1> QED
  BY <1>1, <1>2, <1>4 DEF GradientCommit

LEMMA VariantEngine ==
  ASSUME Core, Walked, VariantStep
  PROVE  EngineStep
<1>1. CASE GradientCommit
  <2> DEFINE f == Falloff(DepositFood, StepsNow(committed))
             h == Falloff(DepositHome, StepsNow(committed))
  <2>1. f \in Nat /\ h \in Nat
    BY <1>1, StepsNowType, FalloffType, ConfigAssumption
  <2>2. Committing(f, h)
    BY <1>1 DEF GradientCommit, Committing, Handling
  <2> QED
    BY <2>1, <2>2 DEF EngineStep
<1> QED
  BY <1>1 DEF VariantStep, QuietStep, EngineStep

LEMMA StepWalked == Core /\ Walked /\ VariantStep => Walked'
<1> SUFFICES ASSUME Core, Walked, VariantStep PROVE Walked'
  OBVIOUS
<1>1. t \in Nat /\ \A i \in Ants : i \in Nat /\ i < AntCount /\ steps[i] \in Nat
  BY ConfigAssumption DEF Core, TypeOK, Walked, Ants
<1>2. CASE GradientCommit
  <2>1. phase' = "commit" /\ t' = t /\ committed' = committed + 1 /\ phase = "commit"
    BY <1>2 DEF GradientCommit, loop
  <2>2. \A i \in Ants : i # committed => steps'[i] = steps[i]
    BY <1>2, StepsNowType DEF Walked
  <2>3. steps' \in [Ants -> Nat] /\ steps'[committed] = StepsNow(committed)
    BY <1>2, StepsNowType DEF Walked
  <2>4. \A i \in Ants : i < committed' <=> i < committed \/ i = committed
    BY <1>1, <1>2, <2>1, StepsNowType
  <2>5. \A i \in Ants : steps'[i] <= t + IF i < committed' THEN 1 ELSE 0
    BY <1>1, <1>2, <2>1, <2>2, <2>3, <2>4, StepsNowType DEF Walked
  <2> QED
    BY <2>1, <2>3, <2>5 DEF Walked
<1>3. CASE Observe /\ UNCHANGED steps
  BY <1>1, <1>3 DEF Observe, Walked
<1>4. CASE Decay /\ UNCHANGED steps
  <2>1. \A i \in Ants : i < committed
    BY <1>1, <1>4 DEF Decay
  <2> QED
    BY <1>1, <1>4, <2>1 DEF Decay, Walked, loop
<1>5. CASE Sensing /\ UNCHANGED steps
  BY <1>1, <1>5 DEF Sensing, Walked, loop
<1>6. CASE (LoopHead \/ Finish \/ Cancel \/ UNCHANGED vars) /\ UNCHANGED steps
  BY <1>1, <1>6 DEF LoopHead, Finish, Cancel, vars, loop, Walked
<1> QED
  BY <1>2, <1>3, <1>4, <1>5, <1>6 DEF VariantStep, QuietStep

(***************************************************************************)
(* The way back.                                                           *)
(***************************************************************************)
\* An intent that phase B has still to carry out leads to a cell next to its ant.
IntentsNear ==
  phase = "commit" =>
    \A i \in Ants : i >= committed => NextTo(intents[i].pos, ants[i].pos)

LEMMA StepNear == Core /\ IntentsNear /\ EngineStep => IntentsNear'
<1> SUFFICES ASSUME Core, IntentsNear, EngineStep PROVE IntentsNear'
  OBVIOUS
<1>1. CASE Sensing
  BY <1>1 DEF Sensing, SoundIntent, IntentsNear
<1>2. ASSUME NEW f \in Nat, NEW h \in Nat, Committing(f, h)
      PROVE  IntentsNear'
  <2>1. /\ phase = "commit" /\ phase' = "commit" /\ committed' = committed + 1
        /\ intents' = intents /\ ants' = [ants EXCEPT ![committed] = Committed(committed)]
    BY <1>2 DEF Committing, Handling, Handle
  <2>2. committed \in Nat /\ ants \in [Ants -> AntType] /\ \A i \in Ants : i \in Nat
    BY ConfigAssumption DEF Core, TypeOK, AntType, Ants
  <2>3. \A i \in Ants : i >= committed' => i >= committed /\ ants'[i] = ants[i]
    BY <2>1, <2>2
  <2> QED
    BY <2>1, <2>3 DEF IntentsNear
<1>3. CASE Decay \/ LoopHead \/ Observe \/ Finish
  BY <1>3 DEF Decay, LoopHead, Observe, Finish, IntentsNear
<1>4. CASE Cancel \/ UNCHANGED vars
  BY <1>4 DEF Cancel, vars, IntentsNear
<1> QED
  BY <1>1, <1>2, <1>3, <1>4 DEF EngineStep

\* A cell a unit was taken from is the cell of a configured pile.
LEMMA PickUpIsOnAPile ==
  ASSUME Core, Pantry, NEW i \in Ants, intents[i].pos \in Cells, PicksUp(i)
  PROVE  \E n \in DOMAIN Piles : Piles[n].at = intents[i].pos
<1>1. food[intents[i].pos] > 0 /\ food[intents[i].pos] \in Nat
  BY DEF PicksUp, Core, TypeOK
<1>2. FoodAt(intents[i].pos) > 0
  BY <1>1, WorldAssumption DEF Pantry
<1> QED
  BY <1>2, TotalAssumption

\* One commit adds one to the way and to the distance, or starts both again.
LEMMA StepWay ==
  ASSUME Core, Pantry, Walked, IntentsNear, StepsCoverTheWay, VariantStep
  PROVE  StepsCoverTheWay'
<1>1. CASE GradientCommit
  <2> DEFINE i == committed
             c == intents[i].pos
  <2>1. /\ i \in Ants /\ i \in Nat /\ phase = "commit"
        /\ steps' = [steps EXCEPT ![i] = StepsNow(i)] /\ steps \in [Ants -> Nat]
    BY <1>1, StepsNowType DEF GradientCommit, Walked
  <2>2. ants' = [ants EXCEPT ![i] = Committed(i)] /\ ants \in [Ants -> AntType]
    BY <1>1 DEF GradientCommit, Handle, Core, TypeOK, AntType
  <2>3. Committed(i).pos = c /\ c \in Cells /\ NextTo(c, ants[i].pos) /\ ants[i].pos \in Cells
    BY <2>1, <2>2, CommittedType DEF IntentsNear, AntType
  <2>4. \A j \in Ants : j # i => ants'[j] = ants[j] /\ steps'[j] = steps[j]
    BY <2>1, <2>2
  <2>5. ants'[i] = Committed(i) /\ steps'[i] = StepsNow(i) /\ steps[i] \in Nat
    BY <2>1, <2>2
  <2>6. ASSUME Loaded(i)
        PROVE  \E n \in DOMAIN Piles : Far(Piles[n].at, c) <= StepsNow(i)
    <3>1. CASE PicksUp(i)
      <4>1. PICK n \in DOMAIN Piles : Piles[n].at = c
        BY <2>1, <2>3, <3>1, PickUpIsOnAPile
      <4>2. Far(Piles[n].at, c) = 0 /\ StepsNow(i) = 0
        BY <2>3, <3>1, <4>1, FarType DEF StepsNow
      <4> QED
        BY <4>2
    <3>2. CASE ~PicksUp(i)
      <4>1. ants[i].hasFood /\ ~DropsOff(i)
        BY <2>6, <3>2 DEF Loaded
      <4>2. PICK n \in DOMAIN Piles : Far(Piles[n].at, ants[i].pos) <= steps[i]
        BY <2>1, <4>1 DEF StepsCoverTheWay
      <4>3. Piles[n].at \in Cells
        BY WorldAssumption
      <4>4. /\ Far(Piles[n].at, c) <= Far(Piles[n].at, ants[i].pos) + 1
            /\ Far(Piles[n].at, c) \in Nat /\ Far(Piles[n].at, ants[i].pos) \in Nat
        BY <2>3, <4>3, FarNext, FarType
      <4>5. StepsNow(i) = steps[i] + 1
        BY <3>2, <4>1 DEF StepsNow
      <4> QED
        BY <2>5, <4>2, <4>4, <4>5
    <3> QED
      BY <3>1, <3>2
  <2>7. ASSUME ~Loaded(i)
        PROVE  Cheb(c) <= StepsNow(i)
    <3>1. Nest \in Cells
      BY ConfigAssumption
    <3>2. CASE DropsOff(i)
      <4>1. c = Nest /\ StepsNow(i) = 0
        BY <3>2 DEF DropsOff, StepsNow
      <4> QED
        BY <3>1, <4>1, FarType, ChebIsFar
    <3>3. CASE ~DropsOff(i)
      <4>1. ~PicksUp(i) /\ ~ants[i].hasFood
        BY <2>7, <3>3 DEF Loaded
      <4>2. Cheb(ants[i].pos) <= steps[i] /\ StepsNow(i) = steps[i] + 1
        BY <2>1, <3>3, <4>1 DEF StepsCoverTheWay, StepsNow
      <4>3. Far(Nest, c) <= Far(Nest, ants[i].pos) + 1
        BY <2>3, <3>1, FarNext
      <4>4. /\ Cheb(c) = Far(Nest, c) /\ Cheb(ants[i].pos) = Far(Nest, ants[i].pos)
            /\ Cheb(c) \in Nat /\ Cheb(ants[i].pos) \in Nat
        BY <2>3, <3>1, FarType, ChebIsFar
      <4> QED
        BY <2>5, <4>2, <4>3, <4>4
    <3> QED
      BY <3>2, <3>3
  <2>8. Committed(i).hasFood = Loaded(i)
    BY DEF Committed
  <2> HIDE DEF i, c
  <2> QED
    BY <2>3, <2>4, <2>5, <2>6, <2>7, <2>8 DEF StepsCoverTheWay
<1>2. ASSUME UNCHANGED <<ants, steps>>
      PROVE  StepsCoverTheWay'
  BY <1>2 DEF StepsCoverTheWay
<1> QED
  BY <1>1, <1>2 DEF VariantStep, QuietStep, Sensing, Decay, LoopHead, Observe, Finish, Cancel, vars

(***************************************************************************)
(* The marks.                                                              *)
(***************************************************************************)
\* Of the ants that have committed in this tick, each has left no more than if
\* it had come straight.
Marks ==
  \A c \in Cells :
    /\ depHome[c] <= committed * Halved(DepositHome, Cheb(c))
    /\ depFood[c] > 0 => \E n \in DOMAIN Piles :
         depFood[c] <= committed * Halved(DepositFood, Far(Piles[n].at, c))

\* What is left after the way between two cells of the grid.
LEMMA HalvedFar ==
  ASSUME NEW base \in Nat, NEW c \in Cells, NEW e \in Cells, NEW m \in Nat,
         m <= Far(c, e) \/ (Far(c, e) <= m /\ m <= Ticks)
  PROVE  /\ Halved(base, Far(c, e)) \in Nat
         /\ m <= Far(c, e) => Halved(base, Far(c, e)) <= Halved(base, m)
         /\ Far(c, e) <= m => Falloff(base, m) \in Nat /\ Falloff(base, m) <= Halved(base, Far(c, e))
<1>1. /\ Far(c, e) \in 0 .. Ticks + Width + Height /\ m \in 0 .. Ticks + Width + Height
      /\ Far(c, e) <= Far(c, e) /\ m <= m /\ Far(c, e) \in Nat
  BY FarType, ConfigAssumption
<1>2. Halved(base, Far(c, e)) \in Nat /\ Halved(base, m) \in Nat
  BY <1>1, HalvedType
<1>3. m <= Far(c, e) => Halved(base, Far(c, e)) <= Halved(base, m)
  BY <1>1, HalvedType
<1>4. Far(c, e) <= m => Halved(base, m) <= Halved(base, Far(c, e))
  BY <1>1, HalvedType
<1>5. Falloff(base, m) \in Nat /\ Falloff(base, m) <= Halved(base, m)
  BY <1>1, FalloffType
<1> QED
  BY <1>2, <1>3, <1>4, <1>5

\* One more share, of at most q.
LEMMA OneShareMore ==
  ASSUME NEW k \in Nat, NEW q \in Nat, NEW v \in Nat, v <= k * q, NEW x \in Nat, x <= q
  PROVE  AddSat(v, x) <= (k + 1) * q /\ k * q <= (k + 1) * q
<1>1. (k + 1) * q = k * q + q /\ k * q \in Nat
  OBVIOUS
<1>2. AddSat(v, x) <= v + x
  BY ConfigAssumption DEF AddSat
<1>3. AddSat(v, x) \in Nat
  BY ConfigAssumption DEF AddSat
<1> QED
  BY <1>1, <1>2, <1>3

LEMMA StepMarks ==
  ASSUME Core, Pantry, Walked, IntentsNear, StepsCoverTheWay, Marks, VariantStep
  PROVE  Marks'
<1>1. /\ depFood \in [Cells -> Nat] /\ depHome \in [Cells -> Nat] /\ committed \in Nat
      /\ DepositFood \in Nat /\ DepositHome \in Nat /\ Nest \in Cells
      /\ \A n \in DOMAIN Piles : Piles[n].at \in Cells
  BY ConfigAssumption, WorldAssumption DEF Core, TypeOK, Levels
<1>2. \A d, e \in Cells : \A base \in Nat : Far(d, e) \in Nat /\ Halved(base, Far(d, e)) \in Nat
  <2> SUFFICES ASSUME NEW d \in Cells, NEW e \in Cells, NEW base \in Nat
               PROVE  Far(d, e) \in Nat /\ Halved(base, Far(d, e)) \in Nat
    OBVIOUS
  <2>1. Far(d, e) \in Nat /\ Far(d, e) <= Far(d, e)
    BY FarType
  <2> QED
    BY <2>1, HalvedFar
<1>3. \A d \in Cells : Cheb(d) = Far(Nest, d)
  BY <1>1, FarType, ChebIsFar
<1>4. CASE GradientCommit
  <2> DEFINE i == committed
             c == intents[i].pos
             s == StepsNow(i)
  <2>1. /\ i \in Ants /\ phase = "commit" /\ committed' = i + 1
        /\ s \in 0 .. Ticks /\ steps' = [steps EXCEPT ![i] = s] /\ steps \in [Ants -> Nat]
    BY <1>4, StepsNowType, ConfigAssumption DEF GradientCommit, Walked
  <2>2. ants' = [ants EXCEPT ![i] = Committed(i)] /\ ants \in [Ants -> AntType]
    BY <1>4 DEF GradientCommit, Handle, Core, TypeOK, AntType
  <2>3. Committed(i).pos = c /\ c \in Cells /\ Committed(i).hasFood = Loaded(i)
    BY <2>1, CommittedType DEF Committed
  <2>4. StepsCoverTheWay'
    BY <1>4, StepWay DEF VariantStep
  <2>5. ants'[i] = Committed(i) /\ steps'[i] = s
    BY <2>1, <2>2
  <2>6. Loaded(i) => \E n \in DOMAIN Piles : Far(Piles[n].at, c) <= s
    BY <2>1, <2>3, <2>4, <2>5 DEF StepsCoverTheWay
  <2>7. ~Loaded(i) => Far(Nest, c) <= s
    BY <1>3, <2>1, <2>3, <2>4, <2>5 DEF StepsCoverTheWay
  <2>8. Mark(i, Falloff(DepositFood, s), Falloff(DepositHome, s))
    BY <1>4 DEF GradientCommit
  <2> HIDE DEF i, c, s
  <2>9. /\ Loaded(i) => /\ depFood' = [depFood EXCEPT ![c] = AddSat(@, Falloff(DepositFood, s))]
                        /\ depHome' = depHome
        /\ ~Loaded(i) => /\ depHome' = [depHome EXCEPT ![c] = AddSat(@, Falloff(DepositHome, s))]
                         /\ depFood' = depFood
    BY <2>8 DEF Mark, c
  <2>10. s \in Nat /\ s <= Ticks /\ committed' = committed + 1
    BY <2>1, ConfigAssumption DEF i
  <2>11. ASSUME NEW d \in Cells
         PROVE  depHome'[d] <= committed' * Halved(DepositHome, Cheb(d))
    <3> DEFINE q == Halved(DepositHome, Far(Nest, d))
    <3>1. q \in Nat /\ depHome[d] \in Nat /\ depHome[d] <= committed * q
      BY <1>1, <1>2, <1>3 DEF Marks
    <3>2. CASE ~Loaded(i) /\ d = c
      <4>1. Falloff(DepositHome, s) \in Nat /\ Falloff(DepositHome, s) <= q
        BY <1>1, <2>3, <2>7, <2>10, <3>2, HalvedFar
      <4>2. depHome'[d] = AddSat(depHome[d], Falloff(DepositHome, s))
        BY <1>1, <2>3, <2>9, <3>2
      <4> HIDE DEF q
      <4>3. depHome'[d] <= (committed + 1) * q
        BY <1>1, <3>1, <4>1, <4>2, OneShareMore
      <4> QED
        BY <1>3, <2>10, <4>3 DEF q
    <3>3. CASE Loaded(i) \/ d # c
      <4>1. depHome'[d] = depHome[d]
        BY <1>1, <2>9, <3>3
      <4> HIDE DEF q
      <4>2. depHome[d] <= (committed + 1) * q
        <5>1. 0 \in Nat /\ 0 <= q
          BY <3>1
        <5>2. committed * q <= (committed + 1) * q /\ committed * q \in Nat /\ (committed + 1) * q \in Nat
          BY <1>1, <3>1, <5>1, OneShareMore
        <5> QED
          BY <3>1, <5>2
      <4> QED
        BY <1>3, <2>10, <4>1, <4>2 DEF q
    <3> QED
      BY <3>2, <3>3
  <2>12. ASSUME NEW d \in Cells, depFood'[d] > 0
         PROVE  \E n \in DOMAIN Piles :
                  depFood'[d] <= committed' * Halved(DepositFood, Far(Piles[n].at, d))
    <3> DEFINE q(n) == Halved(DepositFood, Far(Piles[n].at, d))
    <3>1. depFood[d] \in Nat /\ \A n \in DOMAIN Piles : q(n) \in Nat /\ Far(Piles[n].at, d) \in Nat
      BY <1>1, <1>2
    <3>2. CASE Loaded(i) /\ d = c
      <4>1. depFood'[d] = AddSat(depFood[d], Falloff(DepositFood, s))
        BY <1>1, <2>3, <2>9, <3>2
      <4>2. PICK m \in DOMAIN Piles : Far(Piles[m].at, d) <= s
        BY <2>6, <3>2
      <4>3. \A n \in DOMAIN Piles : Far(Piles[n].at, d) <= s =>
              Falloff(DepositFood, s) \in Nat /\ Falloff(DepositFood, s) <= q(n)
        BY <1>1, <2>10, HalvedFar
      <4>4. \E n \in DOMAIN Piles : depFood[d] <= committed * q(n) /\ Far(Piles[n].at, d) <= s
        <5>1. CASE depFood[d] = 0
          <6>1. committed * q(m) \in Nat
            BY <1>1, <3>1
          <6> QED
            BY <4>2, <5>1, <6>1
        <5>2. CASE depFood[d] > 0
          <6>1. PICK n \in DOMAIN Piles : depFood[d] <= committed * q(n)
            BY <5>2 DEF Marks
          <6>2. CASE Far(Piles[n].at, d) <= s
            BY <6>1, <6>2
          <6>3. CASE ~(Far(Piles[n].at, d) <= s)
            <7>1. Far(Piles[m].at, d) <= Far(Piles[n].at, d)
              BY <2>10, <3>1, <4>2, <6>3
            <7>2. q(n) <= q(m)
              BY <1>1, <3>1, <7>1, HalvedFar
            <7> HIDE DEF q
            <7>3. committed * q(n) <= committed * q(m)
              BY <1>1, <3>1, <7>2
            <7>4. committed * q(n) \in Nat /\ committed * q(m) \in Nat
              BY <1>1, <3>1
            <7> QED
              BY <3>1, <4>2, <6>1, <7>3, <7>4
          <6> QED
            BY <6>2, <6>3
        <5> QED
          BY <3>1, <5>1, <5>2
      <4>5. PICK n \in DOMAIN Piles : depFood[d] <= committed * q(n) /\ Far(Piles[n].at, d) <= s
        BY <4>4
      <4> HIDE DEF q
      <4>6. depFood'[d] <= (committed + 1) * q(n)
        BY <1>1, <3>1, <4>1, <4>3, <4>5, OneShareMore
      <4> QED
        BY <2>10, <4>6 DEF q
    <3>3. CASE ~Loaded(i) \/ d # c
      <4>1. depFood'[d] = depFood[d]
        BY <1>1, <2>9, <3>3
      <4>2. PICK n \in DOMAIN Piles : depFood[d] <= committed * q(n)
        BY <2>12, <4>1 DEF Marks
      <4> HIDE DEF q
      <4>3. depFood[d] <= (committed + 1) * q(n)
        <5>1. 0 \in Nat /\ 0 <= q(n)
          BY <3>1
        <5>2. /\ committed * q(n) <= (committed + 1) * q(n)
              /\ committed * q(n) \in Nat /\ (committed + 1) * q(n) \in Nat
          BY <1>1, <3>1, <5>1, OneShareMore
        <5> QED
          BY <3>1, <4>2, <5>2
      <4> QED
        BY <2>10, <4>1, <4>3 DEF q
    <3> QED
      BY <3>2, <3>3
  <2> QED
    BY <2>11, <2>12 DEF Marks
<1>5. CASE Decay
  <2>1. \A d \in Cells : depHome'[d] = 0 /\ depFood'[d] = 0
    BY <1>5 DEF Decay, Zero
  <2>2. committed' = 0
    BY <1>5 DEF Decay
  <2>3. \A d \in Cells : 0 <= 0 * Halved(DepositHome, Cheb(d))
    BY <1>1, <1>2, <1>3
  <2> QED
    BY <2>1, <2>2, <2>3 DEF Marks
<1>6. ASSUME UNCHANGED <<depFood, depHome, committed>>
      PROVE  Marks'
  BY <1>6 DEF Marks
<1> QED
  BY <1>4, <1>5, <1>6 DEF VariantStep, QuietStep, Sensing, LoopHead, Observe, Finish, Cancel, vars, grids

\* All the ants of a colony leave no more than the share of one, times AntCount.
LEMMA MarksFade == Core /\ Marks => MarksFadeWithDistance
<1> SUFFICES ASSUME Core, Marks, NEW c \in Cells
             PROVE  /\ depHome[c] <= AntCount * Halved(DepositHome, Cheb(c))
                    /\ depFood[c] > 0 => \E n \in DOMAIN Piles :
                         depFood[c] <= AntCount * Halved(DepositFood, Far(Piles[n].at, c))
  BY DEF MarksFadeWithDistance
<1>1. /\ depFood[c] \in Nat /\ depHome[c] \in Nat /\ committed \in Nat /\ AntCount \in Nat
      /\ committed <= AntCount /\ DepositFood \in Nat /\ DepositHome \in Nat /\ Nest \in Cells
      /\ \A n \in DOMAIN Piles : Piles[n].at \in Cells
  <2>1. /\ depFood \in [Cells -> Nat] /\ depHome \in [Cells -> Nat] /\ committed \in Nat
        /\ AntCount \in Nat /\ committed <= AntCount
    <3>1. depFood \in [Cells -> Nat] /\ depHome \in [Cells -> Nat]
      <4>1. Levels \subseteq [Cells -> Nat]
        BY ConfigAssumption DEF Levels
      <4> QED
        BY <4>1 DEF Core, TypeOK
    <3>2. committed \in 0 .. AntCount /\ AntCount \in Nat
      BY ConfigAssumption DEF Core, TypeOK
    <3> QED
      BY <3>1, <3>2
  <2> QED
    BY <2>1, ConfigAssumption, WorldAssumption
<1>2. \A e \in Cells : \A base \in Nat : Halved(base, Far(e, c)) \in Nat
  <2> SUFFICES ASSUME NEW e \in Cells, NEW base \in Nat PROVE Halved(base, Far(e, c)) \in Nat
    OBVIOUS
  <2>1. Far(e, c) \in Nat /\ Far(e, c) <= Far(e, c)
    BY FarType
  <2> QED
    BY <2>1, HalvedFar
<1>3. ASSUME NEW q \in Nat, NEW v \in Nat, v <= committed * q
      PROVE  v <= AntCount * q
  <2>1. committed * q <= AntCount * q /\ committed * q \in Nat /\ AntCount * q \in Nat
    BY <1>1
  <2> QED
    BY <1>3, <2>1
<1>4. Cheb(c) = Far(Nest, c)
  BY <1>1, FarType, ChebIsFar
<1> QED
  BY <1>1, <1>2, <1>3, <1>4 DEF Marks

(***************************************************************************)
(* What holds of every run of the two engines.                             *)
(***************************************************************************)
\* The first mark of a trip: no falloff yet, on the anchor, in the new field.
LEMMA StepFullMark ==
  ASSUME Core, Walked, VariantStep,
         NEW i \in Ants, phase = "commit", phase' = "commit", ants'[i].hasFood # ants[i].hasFood
  PROVE  IF ants'[i].hasFood
         THEN depFood'[ants'[i].pos] = AddSat(depFood[ants'[i].pos], DepositFood)
         ELSE /\ ants'[i].pos = Nest
              /\ depHome'[ants'[i].pos] = AddSat(depHome[ants'[i].pos], DepositHome)
<1>1. ants' # ants
  OBVIOUS
<1>2. GradientCommit
  BY <1>1 DEF VariantStep, QuietStep, Sensing, Decay, LoopHead, Observe, Finish, Cancel, vars
<1> DEFINE c == intents[i].pos
<1>3. ants' = [ants EXCEPT ![committed] = Committed(committed)] /\ ants \in [Ants -> AntType]
  BY <1>2 DEF GradientCommit, Handle, Core, TypeOK, AntType
<1>4. i = committed /\ ants'[i] = Committed(i)
  BY <1>3
<1>5. Committed(i).pos = c /\ c \in Cells /\ Committed(i).hasFood = Loaded(i)
  BY CommittedType DEF Committed
<1>6. Mark(i, Falloff(DepositFood, StepsNow(i)), Falloff(DepositHome, StepsNow(i)))
  BY <1>2, <1>4 DEF GradientCommit
<1>7. depFood \in [Cells -> Nat] /\ depHome \in [Cells -> Nat]
  <2>1. depFood \in Levels /\ depHome \in Levels
    BY DEF Core, TypeOK
  <2>2. 0 .. MaxLevel \subseteq Nat
    BY ConfigAssumption
  <2> QED
    BY <2>1, <2>2 DEF Levels
<1>8. CASE Loaded(i)
  <2>1. PicksUp(i)
    BY <1>4, <1>5, <1>8 DEF Loaded
  <2>2. Falloff(DepositFood, StepsNow(i)) = DepositFood
    BY <2>1, FalloffFull DEF StepsNow
  <2>3. depFood' = [depFood EXCEPT ![c] = AddSat(@, DepositFood)]
    BY <1>6, <1>8, <2>2 DEF Mark
  <2> QED
    BY <1>4, <1>5, <1>7, <1>8, <2>3
<1>9. CASE ~Loaded(i)
  <2>1. DropsOff(i)
    <3>1. ants[i].hasFood \in BOOLEAN /\ ants[i].hasFood # ants'[i].hasFood
      BY <1>3 DEF AntType
    <3>2. ants'[i].hasFood = FALSE
      BY <1>4, <1>5, <1>9 DEF Loaded, PicksUp, DropsOff
    <3>3. ants[i].hasFood
      BY <3>1, <3>2
    <3> QED
      BY <1>9, <3>3 DEF Loaded
  <2>2. Falloff(DepositHome, StepsNow(i)) = DepositHome
    BY <2>1, FalloffFull DEF StepsNow
  <2>3. depHome' = [depHome EXCEPT ![c] = AddSat(@, DepositHome)] /\ c = Nest
    BY <1>6, <1>9, <2>1, <2>2 DEF Mark, DropsOff
  <2> QED
    BY <1>4, <1>5, <1>7, <1>9, <2>3
<1> QED
  BY <1>8, <1>9

FullMark ==
  \A i \in Ants :
    phase = "commit" /\ phase' = "commit" /\ ants'[i].hasFood # ants[i].hasFood =>
      LET c == ants'[i].pos IN
      IF ants'[i].hasFood
      THEN depFood'[c] = AddSat(depFood[c], DepositFood)
      ELSE c = Nest /\ depHome'[c] = AddSat(depHome[c], DepositHome)

\* The inductive invariant of both engines: the reference's, and the way and
\* the marks of Gradient.
VariantInv ==
  /\ Core /\ Pantry /\ FoodBalance /\ FoodLeftIsWhatLies /\ FrameLog /\ CleanBuffers
  /\ Walked /\ IntentsNear /\ StepsCoverTheWay /\ Marks

LEMMA InitVariant == GradientInit => VariantInv
<1> SUFFICES ASSUME GradientInit PROVE VariantInv
  OBVIOUS
<1>1. Init /\ steps = [i \in Ants |-> 0]
  BY DEF GradientInit
<1>2. Core /\ Pantry /\ FoodBalance /\ FoodLeftIsWhatLies /\ FrameLog /\ CleanBuffers
  BY <1>1, InitCore, InitPantry, InitBalance, InitCounted, InitFrameLog, InitClean
<1>3. Walked /\ IntentsNear
  BY <1>1 DEF Init, Walked, IntentsNear
<1>4. StepsCoverTheWay
  <2>1. Nest \in Cells
    BY ConfigAssumption
  <2>2. Cheb(Nest) = 0
    BY <2>1, FarType, ChebIsFar
  <2> QED
    BY <1>1, <2>2 DEF Init, NewWorld, StepsCoverTheWay
<1>5. Marks
  <2>1. \A c \in Cells : Halved(DepositHome, Cheb(c)) \in Nat
    <3> SUFFICES ASSUME NEW c \in Cells PROVE Halved(DepositHome, Cheb(c)) \in Nat
      OBVIOUS
    <3>1. Nest \in Cells /\ DepositHome \in Nat
      BY ConfigAssumption
    <3>2. Far(c, Nest) \in Nat /\ Far(c, Nest) <= Far(c, Nest)
      BY <3>1, FarType
    <3> QED
      BY <3>1, <3>2, HalvedFar, ChebIsFar
  <2>2. \A c \in Cells : 0 <= 0 * Halved(DepositHome, Cheb(c))
    BY <2>1
  <2> QED
    BY <1>1, <2>2 DEF Init, NewWorld, Zero, Marks
<1> QED
  BY <1>2, <1>3, <1>4, <1>5 DEF VariantInv

LEMMA StepVariant == VariantInv /\ VariantStep => VariantInv' /\ EngineStep
<1> SUFFICES ASSUME VariantInv, VariantStep PROVE VariantInv' /\ EngineStep
  OBVIOUS
<1> USE DEF VariantInv
<1>1. EngineStep
  BY VariantEngine
<1>2. (Core /\ Pantry /\ FoodBalance /\ FoodLeftIsWhatLies /\ FrameLog /\ CleanBuffers)'
  BY <1>1, StepCore, StepPantry, StepBalance, StepCounted, StepFrameLog, StepClean
<1>3. (Walked /\ IntentsNear /\ StepsCoverTheWay /\ Marks)'
  BY <1>1, StepWalked, StepNear, StepWay, StepMarks
<1> QED
  BY <1>1, <1>2, <1>3

\* What the reference engine keeps, an engine of the same steps keeps.
ColonyKept ==
  TypeOK /\ FoodBalance /\ FoodLeftIsWhatLies /\ NoneIdlesOnFood /\ FramesInOrder

LEMMA VariantKeeps == VariantInv => ColonyKept /\ StepsCoverTheWay /\ MarksFadeWithDistance
BY MarksFade DEF VariantInv, ColonyKept, Core, Pantry, FrameLog

\* Every run of the two engines stays in the invariant and takes their steps.
LEMMA GradientRuns == GradientSpec => []VariantInv /\ [][VariantStep]_gradientVars
<1>1. VariantInv /\ [GradientNext]_gradientVars => VariantStep
  BY GradientSteps DEF VariantInv
<1> QED
  BY <1>1, InitVariant, StepVariant, PTL DEF GradientSpec

LEMMA ScentRuns == ScentSpec => []VariantInv /\ [][VariantStep]_gradientVars
<1>1. VariantInv /\ [ScentNext]_gradientVars => VariantStep
  BY ScentSteps DEF VariantInv
<1> QED
  BY <1>1, InitVariant, StepVariant, PTL DEF ScentSpec, ScentInit

\* The gradient engine is a colony: no unit of food is lost, nobody idles on
\* food, the observer sees its frames in order.
THEOREM GradientIsAColony == GradientSpec => []ColonyKept
BY GradientRuns, VariantKeeps, PTL

\* So is the scent engine, whatever the pull of the smell.
THEOREM ScentIsAColony == ScentSpec => []ColonyKept
BY ScentRuns, VariantKeeps, PTL

LEMMA VariantLarder == VariantInv /\ VariantStep => [Larder!Next]_Larder!vars
BY StepVariant, StepLarder DEF VariantInv

LEMMA QuietLarder == UNCHANGED gradientVars => UNCHANGED Larder!vars
BY DEF gradientVars, vars, larder, Larder!vars, Carriers

\* Both refine Harvest, as the reference engine does.
THEOREM GradientImplementsHarvest == GradientSpec => ImplementsHarvest
<1>1. GradientInit => Larder!Init
  BY InitLarder DEF GradientInit
<1>2. GradientSpec => GradientInit
  BY PTL DEF GradientSpec
<1> QED
  BY <1>1, <1>2, GradientRuns, VariantLarder, QuietLarder, PTL DEF ImplementsHarvest, Larder!Spec

\* The smell changes where ants go, not what becomes of a unit.
THEOREM ScentImplementsHarvest == ScentSpec => ImplementsHarvest
<1>1. ScentInit => Larder!Init
  BY InitLarder DEF ScentInit, GradientInit
<1>2. ScentSpec => ScentInit
  BY PTL DEF ScentSpec
<1> QED
  BY <1>1, <1>2, ScentRuns, VariantLarder, QuietLarder, PTL DEF ImplementsHarvest, Larder!Spec

\* The counter never falls short of the way back, whatever the walls make an
\* ant go round and however often it is blocked.
THEOREM GradientStepsCoverTheWay == GradientSpec => []StepsCoverTheWay
BY GradientRuns, VariantKeeps, PTL

\* The smell changes which way they take, not that every step of it is counted.
THEOREM ScentStepsCoverTheWay == ScentSpec => []StepsCoverTheWay
BY ScentRuns, VariantKeeps, PTL

\* The field encodes closeness: no cell gets more in a tick than a whole colony
\* come straight from the nest, or from one of the piles, could leave there.
THEOREM GradientMarksFade == GradientSpec => []MarksFadeWithDistance
BY GradientRuns, VariantKeeps, PTL

\* Nor what a mark is worth after so many steps.
THEOREM ScentMarksFade == ScentSpec => []MarksFadeWithDistance
BY ScentRuns, VariantKeeps, PTL

LEMMA VariantFullMark == VariantInv /\ VariantStep => FullMark
BY StepFullMark DEF VariantInv, FullMark

\* However long the trip before was, the next one starts with a full mark on
\* its anchor.
THEOREM GradientTripStartsWithFullMark == GradientSpec => TripStartsWithFullMark
BY GradientRuns, VariantFullMark, PTL DEF TripStartsWithFullMark, FullMark

\* The scent engine commits as the gradient engine does.
THEOREM ScentTripStartsWithFullMark == ScentSpec => TripStartsWithFullMark
BY ScentRuns, VariantFullMark, PTL DEF TripStartsWithFullMark, FullMark

\* At any moment of any run a searching ant on any cell smells the nearest pile
\* that still holds food and is in reach, the first of the configuration among
\* equals, and no other.
THEOREM ScentSmellsNearestLivePile == ScentSpec => []SmellsNearestLivePile
BY SmellIsNearest, PTL

(***************************************************************************)
(* Where the ants turn.                                                    *)
(***************************************************************************)
MovesAsAColony ==
  /\ \A i \in Ants : phase = "commit" /\ committed = i /\ committed' = i + 1
                     /\ intents[i].blocked => ants'[i].dir = intents[i].dir
  /\ \A i \in Ants :
       phase = "sense" /\ phase' = "commit" /\ ants[i].blocked /\ intents'[i].blocked
       /\ ~Wandered(i, drawn[i]) /\ ~Wandered(i, drawn[i] - 2) =>
         \A d \in {ants[i].dir, Opposite(ants[i].dir)} :
           \A k \in 1 .. 3 : ~Passable(Ahead(ants[i].pos, Cone(d)[k]))

\* Without food on the nest the turn of a blocked ant is never undone, and what
\* it saw is remembered.
LEMMA StepMoves ==
  ASSUME FoodAt(Nest) = 0
  PROVE  VariantInv /\ LookedBack /\ VariantStep => LookedBack' /\ MovesAsAColony
<1> SUFFICES ASSUME VariantInv, LookedBack, VariantStep PROVE LookedBack' /\ MovesAsAColony
  OBVIOUS
<1>1. Core /\ Pantry /\ EngineStep
  BY StepVariant DEF VariantInv
<1>2. LookedBack'
  BY <1>1, StepLookedBack
<1>3. MovesAsAColony
  BY <1>1, StepTurnsRound, StepWedged DEF MovesAsAColony, Closed
<1> QED
  BY <1>2, <1>3

LEMMA QuietLookedBack == LookedBack /\ UNCHANGED gradientVars => LookedBack'
BY DEF LookedBack, Awaiting, Wandered, gradientVars, vars

\* Neither mark nor smell brings back the wrong turn: in both engines a blocked
\* ant keeps the heading it was turned to, and one that fails twice in a row
\* without wandering is closed in on both sides.
THEOREM GradientTurnsRound ==
  FoodAt(Nest) = 0 => (GradientSpec => BlockedAntTurnsRound /\ WedgedOnlyBetweenWalls)
<1> SUFFICES ASSUME FoodAt(Nest) = 0
             PROVE  GradientSpec => BlockedAntTurnsRound /\ WedgedOnlyBetweenWalls
  OBVIOUS
<1>1. GradientInit => LookedBack
  BY InitLookedBack DEF GradientInit
<1>2. VariantInv /\ LookedBack /\ VariantStep => LookedBack' /\ MovesAsAColony
  BY StepMoves
<1>3. GradientSpec => [][MovesAsAColony]_gradientVars
  <2>1. GradientSpec => GradientInit
    BY PTL DEF GradientSpec
  <2> QED
    BY <1>1, <1>2, <2>1, GradientRuns, QuietLookedBack, PTL
<1>4. UNCHANGED gradientVars => UNCHANGED vars
  BY DEF gradientVars
<1> QED
  BY <1>3, <1>4, PTL DEF MovesAsAColony, BlockedAntTurnsRound, WedgedOnlyBetweenWalls

\* Nor does the smell, whose bias ranks open cells only.
THEOREM ScentTurnsRound ==
  FoodAt(Nest) = 0 => (ScentSpec => BlockedAntTurnsRound /\ WedgedOnlyBetweenWalls)
<1> SUFFICES ASSUME FoodAt(Nest) = 0
             PROVE  ScentSpec => BlockedAntTurnsRound /\ WedgedOnlyBetweenWalls
  OBVIOUS
<1>1. ScentInit => LookedBack
  BY InitLookedBack DEF ScentInit, GradientInit
<1>2. VariantInv /\ LookedBack /\ VariantStep => LookedBack' /\ MovesAsAColony
  BY StepMoves
<1>3. ScentSpec => [][MovesAsAColony]_gradientVars
  <2>1. ScentSpec => ScentInit
    BY PTL DEF ScentSpec
  <2> QED
    BY <1>1, <1>2, <2>1, ScentRuns, QuietLookedBack, PTL
<1>4. UNCHANGED gradientVars => UNCHANGED vars
  BY DEF gradientVars
<1> QED
  BY <1>3, <1>4, PTL DEF MovesAsAColony, BlockedAntTurnsRound, WedgedOnlyBetweenWalls

(***************************************************************************)
(* The pull of the smell.                                                  *)
(***************************************************************************)
\* An ant that decides by score enters the best place of its cone.
LEMMA EntersBest ==
  ASSUME NEW a, NEW j \in Candidates(a)
  PROVE  Step(a, Cone(Heading(a))[j]).pos = Reached(a, j)
BY DEF Candidates, Step, Reached

\* Between two places of the cone, the nearer one is turned down only for a
\* trail that outweighs the smell.
LEMMA StepLed ==
  ASSUME Core, ScentSense PROVE LedBySmell
<1> SUFFICES ASSUME NEW i \in Ants, ~ants[i].hasFood, ~Wandered(i, drawn[i]),
                    NearestScent(ants[i].pos) # 0,
                    NEW k \in Candidates(ants[i]),
                    Far(Reached(ants[i], k), Piles[NearestScent(ants[i].pos)].at)
                      < Far(ants[i].pos, Piles[NearestScent(ants[i].pos)].at)
             PROVE  \/ /\ \E j \in Candidates(ants[i]) : intents'[i].pos = Reached(ants[i], j)
                       /\ Far(intents'[i].pos, Piles[NearestScent(ants[i].pos)].at)
                            < Far(ants[i].pos, Piles[NearestScent(ants[i].pos)].at)
                    \/ pheroFood[intents'[i].pos]
                         >= pheroFood[Reached(ants[i], k)] + MaxLevel \div 4
  BY DEF LedBySmell
<1> DEFINE a == ants[i]
           s == NearestScent(a.pos)
           pile == Piles[s].at
           j == ScentBest(a)
<1>1. j \in Candidates(a) /\ IsBest(a, j)
  BY ScentBestIsBest
<1>2. intents'[i] = Step(a, Cone(Heading(a))[j])
  <2>1. intents'[i] = ScentIntent(i)
    BY DEF ScentSense
  <2> QED
    BY <2>1 DEF ScentIntent, Wandered
<1>3. intents'[i].pos = Reached(a, j)
  BY <1>1, <1>2, EntersBest
<1>4. /\ Reached(a, j) \in Cells /\ Reached(a, k) \in Cells
      /\ ScentScore(a, j) = Score(a, pheroFood, Reached(a, j)) + Pull(a, Reached(a, j))
      /\ ScentScore(a, k) = Score(a, pheroFood, Reached(a, k)) + Pull(a, Reached(a, k))
  BY <1>1, ScoreTypes
<1>5. /\ Score(a, pheroFood, Reached(a, j)) = pheroFood[Reached(a, j)] + 0
      /\ Score(a, pheroFood, Reached(a, k)) = pheroFood[Reached(a, k)] + 0
  BY DEF Score
<1>6. /\ pheroFood[Reached(a, j)] \in Nat /\ pheroFood[Reached(a, k)] \in Nat
      /\ ScentBias \in Nat /\ ScentBias = MaxLevel \div 4 /\ a.pos \in Cells
  <2>1. pheroFood \in Levels /\ a.pos \in Cells
    BY DEF Core, TypeOK
  <2>2. 0 .. MaxLevel \subseteq Nat /\ MaxLevel \div 4 \in Nat
    BY ConfigAssumption
  <2> QED
    BY <1>4, <2>1, <2>2 DEF Levels, ScentBias
<1>7. pile \in Cells
  <2>1. Len(Piles) \in 0 .. Len(Piles) /\ DOMAIN Piles = 1 .. Len(Piles)
    BY WorldAssumption
  <2>2. Nearest(s, Len(Piles), a.pos)
    BY <1>6, <2>1, ScanFound, ScanNearest
  <2> QED
    BY <2>1, <2>2, WorldAssumption DEF Nearest
<1>8. \A c \in Cells : Far(c, pile) = Far(pile, c)
  BY <1>7, FarType
<1>9. Pull(a, Reached(a, k)) = ScentBias
  BY <1>4, <1>6, <1>8 DEF Pull, Closer
<1>10. CASE Far(Reached(a, j), pile) < Far(a.pos, pile)
  BY <1>1, <1>3, <1>10
<1>11. CASE ~(Far(Reached(a, j), pile) < Far(a.pos, pile))
  <2>1. Pull(a, Reached(a, j)) = 0
    BY <1>4, <1>6, <1>8, <1>11 DEF Pull, Closer
  <2>2. ScentScore(a, j) = pheroFood[Reached(a, j)]
    BY <1>4, <1>5, <1>6, <2>1
  <2>3. ScentScore(a, k) = pheroFood[Reached(a, k)] + ScentBias
    BY <1>4, <1>5, <1>6, <1>9
  <2>4. ScentScore(a, j) > ScentScore(a, k) \/ ScentScore(a, j) = ScentScore(a, k)
    BY <1>1 DEF IsBest
  <2>5. pheroFood[Reached(a, j)] >= pheroFood[Reached(a, k)] + ScentBias
    BY <1>6, <2>2, <2>3, <2>4
  <2> QED
    BY <1>3, <1>6, <2>5
<1> QED
  BY <1>10, <1>11

\* An ant that smells nothing decides by the score of the gradient engine.
LEMMA NoPullNoChange ==
  ASSUME Core, NEW i \in Ants, \A c : Pull(ants[i], c) = 0
  PROVE  ScentIntent(i) = Intent(i)
<1> DEFINE a == ants[i]
           trail == IF a.hasFood THEN pheroHome ELSE pheroFood
           best == Best(a, trail)
<1>1. ASSUME Candidates(a) # {}
      PROVE  ScentBest(a) = best
  <2>1. ScentBest(a) \in Candidates(a) /\ IsBest(a, ScentBest(a))
    BY <1>1, ScentBestIsBest
  <2>2. \A k \in Candidates(a) :
          /\ k \in 1 .. 3 /\ Score(a, trail, Reached(a, k)) \in Nat
          /\ ScentScore(a, k) = Score(a, trail, Reached(a, k)) + 0
    BY ScoreTypes
  <2>3. \A k \in Candidates(a) : ScentScore(a, k) = Score(a, trail, Reached(a, k))
    BY <2>2
  <2>4. \E j \in Candidates(a) : \A k \in Candidates(a) : Better(a, trail, j, k)
    BY <2>1, <2>3 DEF IsBest, Better, Reached
  <2>5. best \in Candidates(a) /\ \A k \in Candidates(a) : Better(a, trail, best, k)
    BY <2>4 DEF Best
  <2>6. /\ \/ Score(a, trail, Reached(a, best)) > Score(a, trail, Reached(a, ScentBest(a)))
           \/ /\ Score(a, trail, Reached(a, best)) = Score(a, trail, Reached(a, ScentBest(a)))
              /\ best <= ScentBest(a)
    BY <2>1, <2>5 DEF Better, Reached
  <2>7. /\ \/ Score(a, trail, Reached(a, ScentBest(a))) > Score(a, trail, Reached(a, best))
           \/ /\ Score(a, trail, Reached(a, ScentBest(a))) = Score(a, trail, Reached(a, best))
              /\ ScentBest(a) <= best
    BY <2>1, <2>3, <2>5 DEF IsBest
  <2> HIDE DEF best
  <2> QED
    BY <2>1, <2>2, <2>5, <2>6, <2>7
<1> QED
  BY <1>1 DEF ScentIntent, Intent, ChooseMove

\* With no live pile in reach there is no pull.
LEMMA StepFree ==
  ASSUME Core, ScentSense PROVE FreeOfSpentPiles
<1> SUFFICES ASSUME NEW i \in Ants,
                    \A c \in Cells : Far(c, ants[i].pos) <= Radius => food[c] = 0
             PROVE  intents'[i] = Intent(i)
  BY DEF FreeOfSpentPiles
<1>1. ants[i].pos \in Cells
  BY DEF Core, TypeOK
<1>2. Len(Piles) \in 0 .. Len(Piles) /\ DOMAIN Piles = 1 .. Len(Piles)
  BY WorldAssumption
<1>3. Nearest(NearestScent(ants[i].pos), Len(Piles), ants[i].pos)
  BY <1>1, <1>2, ScanFound, ScanNearest
<1>4. \A n \in 1 .. Len(Piles) : ~Smells(n, ants[i].pos)
  BY <1>2, WorldAssumption DEF Smells
<1>5. NearestScent(ants[i].pos) = 0
  BY <1>3, <1>4 DEF Nearest
<1>6. \A c : Pull(ants[i], c) = 0
  BY <1>5 DEF Pull
<1>7. intents'[i] = ScentIntent(i)
  BY DEF ScentSense
<1> QED
  BY <1>6, <1>7, NoPullNoChange

\* In every run a searching ant that does not wander turns down a step towards
\* the pile it smells only for a trail stronger by a quarter of saturation, and
\* from the tick after the last unit in reach was taken it decides as an ant of
\* the gradient engine (scent.go 13-17).
THEOREM ScentLeadsTheSearcher == ScentSpec => [][LedBySmell /\ FreeOfSpentPiles]_gradientVars
<1>1. ASSUME VariantInv, ScentNext
      PROVE  LedBySmell /\ FreeOfSpentPiles
  <2>1. Core
    BY <1>1 DEF VariantInv
  <2>2. CASE ScentSense
    BY <2>1, <2>2, StepLed, StepFree
  <2>3. CASE ~(phase = "sense" /\ phase' = "commit")
    BY <2>3 DEF LedBySmell, FreeOfSpentPiles
  <2> QED
    BY <1>1, <2>2, <2>3 DEF ScentNext, ScentRun, ScentLoopHead, ScentCommit, ScentDecay,
       ScentObserve, ScentFinish, GradientLoopHead, GradientCommit, GradientDecay,
       GradientObserve, GradientFinish, GradientCancel, GradientReturned, LoopHead, Decay,
       Observe, Finish, Cancel
<1>2. VariantInv /\ [ScentNext]_gradientVars => [LedBySmell /\ FreeOfSpentPiles]_gradientVars
  BY <1>1
<1> QED
  BY <1>2, ScentRuns, PTL DEF ScentSpec
=============================================================================
