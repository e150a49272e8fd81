----------------------------- MODULE GridProofs -----------------------------
(***************************************************************************)
(* What the operators of Grid return, for every configuration.  The proofs *)
(* about Colony and about the engines that share its rules rest on these.  *)
(***************************************************************************)
EXTENDS Grid, WellFoundedInduction, TLAPS

AntType == [pos : Cells, dir : Dirs, hasFood : BOOLEAN, blocked : BOOLEAN]
IntentType == [pos : Cells, dir : Dirs, blocked : BOOLEAN]

Before == {ss \in Nat \X Nat : ss[1] < ss[2]}

\* Induction on 0 .. N, for a set.
LEMMA UpTo ==
  ASSUME NEW N \in Nat, NEW S, 0 \in S, \A m \in 0 .. N - 1 : m \in S => m + 1 \in S
  PROVE  0 .. N \subseteq S
<1> DEFINE T == (0 .. N) \ S
<1> SUFFICES ASSUME T # {} PROVE FALSE
  OBVIOUS
<1>1. IsWellFoundedOn(Before, Nat)
  BY NatLessThanWellFounded DEF OpToRel, Before
<1>2. T \subseteq Nat
  OBVIOUS
<1>3. PICK x \in T : \A y \in T : ~(<<y, x>> \in Before)
  BY <1>1, <1>2, WFMin
<1>4. x \in 1 .. N
  OBVIOUS
<1>5. \A m, k \in Nat : m < k => <<m, k>> \in Before
  BY DEF Before
<1>6. x - 1 \in Nat /\ x \in Nat /\ x - 1 < x
  BY <1>4
<1>7. x - 1 \notin T
  BY <1>3, <1>5, <1>6
<1> QED
  BY <1>4, <1>7

\* Less shared among more is not more: x \div b and y \div a compare as x and y do.
LEMMA DivMonotone ==
  ASSUME NEW x \in Nat, NEW y \in Nat, x <= y, NEW a \in Nat \ {0}, NEW b \in Nat \ {0}, a <= b
  PROVE  x \div b \in Nat /\ y \div a \in Nat /\ x \div b <= y \div a
<1> DEFINE p == x \div b
           q == y \div a
<1>1. p \in Nat /\ b * p <= x /\ q \in Nat /\ y < a * q + a
  OBVIOUS
<1> HIDE DEF p, q
<1>2. ASSUME p >= q + 1 PROVE FALSE
  <2>1. a * p >= a * (q + 1) /\ a * (q + 1) = a * q + a
    BY <1>1, <1>2
  <2>2. b * p >= a * p
    BY <1>1
  <2> QED
    BY <1>1, <2>1, <2>2
<1> QED
  BY <1>1, <1>2 DEF p, q

\* A share n/d of v, rounded down, is at most v even when its product wraps:
\* decayGrid never takes more out of a cell than the cell holds, so its uint64
\* subtraction does not wrap.
LEMMA ShareBound ==
  ASSUME NEW v \in Nat, NEW n \in Nat, NEW d \in Nat \ {0}, n <= d
  PROVE  Share(v, n, d) \in 0 .. v
<1> DEFINE p == (v * n) % WordRange
<1>1. v * n \in Nat /\ v * n <= v * d
  OBVIOUS
<1>2. p \in Nat /\ p <= v * n
  <2> WordRange \in Nat \ {0}
    BY ConfigAssumption
  <2> SUFFICES ASSUME NEW m \in Nat PROVE m % WordRange \in Nat /\ m % WordRange <= m
    BY <1>1
  <2>1. m \div WordRange \in Nat /\ WordRange * (m \div WordRange) \in Nat
    OBVIOUS
  <2>2. m = WordRange * (m \div WordRange) + (m % WordRange) /\ m % WordRange \in Nat
    OBVIOUS
  <2> QED BY <2>1, <2>2
<1> HIDE DEF p
<1>3. p \div d \in Nat /\ d * (p \div d) <= p
  BY <1>2
<1>4. ASSUME p \div d >= v + 1 PROVE FALSE
  <2>1. d * (p \div d) >= d * (v + 1)
    BY <1>3, <1>4
  <2> QED BY <1>1, <1>2, <1>3, <2>1
<1> QED BY <1>3, <1>4 DEF Share, p

\* Intn(n) is in 0 .. n - 1 (rng.go 57-58).
LEMMA IntnRange ==
  ASSUME NEW x \in 0 .. RawRange - 1, NEW n \in Nat \ {0}
  PROVE  Intn(x, n) \in 0 .. n - 1
<1> RawRange \in Nat \ {0}
  BY ConfigAssumption
<1>1. x * n \in Nat /\ x * n <= (RawRange - 1) * n
  OBVIOUS
<1>2. (x * n) \div RawRange \in Nat /\ RawRange * ((x * n) \div RawRange) <= x * n
  BY <1>1
<1>3. ASSUME (x * n) \div RawRange >= n PROVE FALSE
  <2>1. RawRange * ((x * n) \div RawRange) >= RawRange * n
    BY <1>2, <1>3
  <2>2. (RawRange - 1) * n < RawRange * n
    OBVIOUS
  <2> QED BY <1>1, <1>2, <2>1, <2>2
<1> QED BY <1>2, <1>3 DEF Intn

\* Turning round is an involution on the eight headings.
LEMMA OppositeType ==
  ASSUME NEW d \in Dirs
  PROVE  Opposite(d) \in Dirs /\ Opposite(Opposite(d)) = d
BY DEF Dirs, Opposite

\* The three candidates of a cone are headings.
LEMMA ConeType ==
  ASSUME NEW d \in Dirs, NEW k \in 1 .. 3
  PROVE  Cone(d)[k] \in Dirs
BY DEF Dirs, Cone

\* One step changes each coordinate by one at most.
NextTo(c, e) == c[1] - e[1] \in -1 .. 1 /\ c[2] - e[2] \in -1 .. 1

\* What an ant may decide in phase A: a step to an open cell next to it, or to
\* stay, turned round; and unless it wanders it stays only if its cone is closed.
SoundIntent(a, roll, in) ==
  /\ in \in IntentType /\ in.pos \notin WallCells /\ NextTo(in.pos, a.pos)
  /\ in.blocked => in.pos = a.pos
  /\ in.blocked /\ ~(roll < RandomNum) => in.dir = Opposite(a.dir) /\ Candidates(a) = {}

\* A cell is next to itself and to the eight cells ahead of it.
LEMMA AheadIsNextTo ==
  ASSUME NEW c \in Cells, NEW d \in Dirs
  PROVE  /\ NextTo(c, c) /\ NextTo(Ahead(c, d), c)
         /\ Ahead(c, d)[1] \in Int /\ Ahead(c, d)[2] \in Int
<1>1. c[1] \in Int /\ c[2] \in Int
  BY DEF Cells
<1>2. DirDX[d] \in -1 .. 1 /\ DirDY[d] \in -1 .. 1
  BY DEF DirDX, DirDY
<1>3. Ahead(c, d)[1] = c[1] + DirDX[d] /\ Ahead(c, d)[2] = c[2] + DirDY[d]
  BY DEF Ahead
<1> QED
  BY <1>1, <1>2, <1>3 DEF NextTo

\* Stepping leads to an open cell next to the ant, or it stays, blocked.
LEMMA StepType ==
  ASSUME NEW a \in AntType, a.pos \notin WallCells, NEW d \in Dirs
  PROVE  /\ Step(a, d) \in IntentType /\ Stay(a, d) \in IntentType
         /\ Step(a, d).pos \notin WallCells /\ NextTo(Step(a, d).pos, a.pos)
         /\ Step(a, d).blocked => Step(a, d).pos = a.pos
         /\ Step(a, d).blocked <=> ~Passable(Ahead(a.pos, d))
         /\ Stay(a, d) = [pos |-> a.pos, dir |-> Opposite(d), blocked |-> TRUE]
         /\ NextTo(a.pos, a.pos)
<1>1. a.pos \in Cells /\ Opposite(d) \in Dirs
  BY OppositeType DEF AntType
<1>2. NextTo(a.pos, a.pos) /\ NextTo(Ahead(a.pos, d), a.pos)
  BY <1>1, AheadIsNextTo
<1> QED
  BY <1>1, <1>2 DEF Step, Stay, Passable, IntentType

\* The distance chooseMove compares is a natural number.
LEMMA ChebType ==
  ASSUME NEW c \in Cells
  PROVE  Cheb(c) \in Nat
<1>1. c[1] \in Nat /\ c[2] \in Nat /\ Nest[1] \in Nat /\ Nest[2] \in Nat
  BY ConfigAssumption DEF Cells
<1> QED BY <1>1 DEF Cheb, AbsDiff

\* The order chooseMove compares candidates by has a maximum on any choice of
\* the three places of a cone.
LEMMA MaxOfThree ==
  ASSUME NEW S \in SUBSET {1, 2, 3}, S # {}, NEW f \in [S -> Nat]
  PROVE  \E j \in S : \A k \in S : f[j] > f[k] \/ (f[j] = f[k] /\ j <= k)
<1> DEFINE beats(j, k) == f[j] > f[k] \/ (f[j] = f[k] /\ j <= k)
<1>1. \A k \in S : f[k] \in Nat /\ k \in {1, 2, 3}
  OBVIOUS
<1>2. \A j, k \in S : beats(j, k) \/ beats(k, j)
  BY <1>1
<1>3. \A i, j, k \in S : beats(i, j) /\ beats(j, k) => beats(i, k)
  BY <1>1
<1> HIDE DEF beats
<1>4. ASSUME 1 \notin S \/ 2 \notin S \/ 3 \notin S
      PROVE  \E j \in S : \A k \in S : beats(j, k)
  <2>1. PICK x \in S : TRUE
    OBVIOUS
  <2>2. CASE \A y \in S : y = x
    BY <1>2, <2>2
  <2>3. CASE \E y \in S : y # x
    <3>1. PICK y \in S : y # x
      BY <2>3
    <3>2. \A k \in S : k = x \/ k = y
      BY <1>4, <3>1
    <3> QED BY <1>2, <3>2
  <2> QED BY <2>2, <2>3
<1>5. ASSUME S = {1, 2, 3}
      PROVE  \E j \in S : \A k \in S : beats(j, k)
  <2>1. PICK x \in {1, 2} : beats(x, 1) /\ beats(x, 2)
    BY <1>2, <1>5
  <2>2. CASE beats(x, 3)
    BY <1>5, <2>1, <2>2
  <2>3. CASE beats(3, x)
    BY <1>2, <1>3, <1>5, <2>1, <2>3
  <2> QED BY <1>2, <1>5, <2>1, <2>2, <2>3
<1>6. \E j \in S : \A k \in S : beats(j, k)
  BY <1>4, <1>5
<1> QED BY <1>6 DEF beats

\* Among the open candidates there is a best one: the strict comparison in
\* ascending order (tick.go 83-86) picks a maximum.
LEMMA BestIsCandidate ==
  ASSUME NEW a \in AntType, NEW trail \in [Cells -> Nat], Candidates(a) # {}
  PROVE  Best(a, trail) \in Candidates(a)
<1> DEFINE sc(k) == Score(a, trail, Ahead(a.pos, Cone(Heading(a))[k]))
           S == Candidates(a)
<1>1. S \subseteq {1, 2, 3}
  BY DEF Candidates
<1>2. \A k \in S : sc(k) \in Nat
  <2> SUFFICES ASSUME NEW k \in S PROVE sc(k) \in Nat
    OBVIOUS
  <2> DEFINE c == Ahead(a.pos, Cone(Heading(a))[k])
  <2>1. c \in Cells
    BY DEF Candidates, Passable
  <2>2. NestBias \in Nat
    BY ConfigAssumption DEF NestBias
  <2>3. Cheb(c) \in Nat /\ Cheb(a.pos) \in Nat
    BY <2>1, ChebType DEF AntType
  <2>4. trail[c] \in Nat
    BY <2>1
  <2> QED BY <2>2, <2>3, <2>4 DEF Score
<1> HIDE DEF sc, S
<1>3. \E j \in S : \A k \in S : sc(j) > sc(k) \/ (sc(j) = sc(k) /\ j <= k)
  <2> DEFINE f == [k \in S |-> sc(k)]
  <2>1. S # {} /\ f \in [S -> Nat] /\ S \in SUBSET {1, 2, 3}
    BY <1>1, <1>2 DEF S
  <2>2. \A k \in S : f[k] = sc(k)
    OBVIOUS
  <2> HIDE DEF f
  <2>3. \E j \in S : \A k \in S : f[j] > f[k] \/ (f[j] = f[k] /\ j <= k)
    BY <2>1, MaxOfThree
  <2> QED BY <2>2, <2>3
<1>4. \E j \in Candidates(a) : \A k \in Candidates(a) : Better(a, trail, j, k)
  BY <1>3 DEF S, sc, Better
<1> QED BY <1>4 DEF Best

\* Whichever open candidate an engine prefers, its decision is sound.
LEMMA DecisionSound ==
  ASSUME NEW a \in AntType, a.pos \notin WallCells,
         NEW roll \in Nat, NEW pick \in 0 .. 2,
         NEW best, Candidates(a) # {} => best \in Candidates(a)
  PROVE  SoundIntent(a, roll, IF roll < RandomNum THEN Step(a, Cone(Heading(a))[pick + 1])
                              ELSE IF Candidates(a) = {} THEN Stay(a, Heading(a))
                              ELSE Step(a, Cone(Heading(a))[best]))
<1>1. Heading(a) \in Dirs /\ Heading(a) = a.dir
  BY DEF AntType, Heading
<1>2. Cone(Heading(a))[pick + 1] \in Dirs
  BY <1>1, ConeType
<1>3. CASE roll < RandomNum
  BY <1>2, <1>3, StepType DEF SoundIntent
<1>4. CASE ~(roll < RandomNum) /\ Candidates(a) = {}
  <2>1. /\ Stay(a, Heading(a)) \in IntentType
        /\ Stay(a, Heading(a)) = [pos |-> a.pos, dir |-> Opposite(a.dir), blocked |-> TRUE]
        /\ NextTo(a.pos, a.pos)
    BY <1>1, StepType DEF Stay
  <2> QED
    BY <1>4, <2>1 DEF SoundIntent
<1>5. CASE ~(roll < RandomNum) /\ Candidates(a) # {}
  <2>1. best \in 1 .. 3 /\ Passable(Ahead(a.pos, Cone(Heading(a))[best]))
    BY <1>5 DEF Candidates
  <2>2. Cone(Heading(a))[best] \in Dirs
    BY <1>1, <2>1, ConeType
  <2> QED
    BY <1>5, <2>1, <2>2, StepType DEF SoundIntent
<1> QED
  BY <1>3, <1>4, <1>5

\* An intent of the reference engine is sound.
LEMMA ChooseMoveType ==
  ASSUME NEW a \in AntType, a.pos \notin WallCells,
         NEW roll \in Nat, NEW pick \in 0 .. 2,
         NEW pheroFood \in [Cells -> Nat], NEW pheroHome \in [Cells -> Nat]
  PROVE  SoundIntent(a, roll, ChooseMove(a, roll, pick, pheroFood, pheroHome))
<1> DEFINE trail == IF a.hasFood THEN pheroHome ELSE pheroFood
<1>1. Candidates(a) # {} => Best(a, trail) \in Candidates(a)
  BY BestIsCandidate
<1> QED
  BY <1>1, DecisionSound DEF ChooseMove

\* A deposit saturates at Pheromone.Max.
LEMMA AddSatType ==
  ASSUME NEW v \in 0 .. MaxLevel, NEW dep \in Nat
  PROVE  AddSat(v, dep) \in 0 .. MaxLevel
BY ConfigAssumption DEF AddSat

\* Every level phase C computes is between 0 and Pheromone.Max.
LEMMA DecayedType ==
  ASSUME NEW cur \in [Cells -> Nat], NEW dep \in [Cells -> Nat], NEW c \in Cells
  PROVE  Decayed(cur, dep, c) \in 0 .. MaxLevel
<1>1. \A x : Level(cur, dep, x) \in Nat
  BY DEF Level
<1> DEFINE v   == Level(cur, dep, c)
           in  == Level(cur, dep, Ahead(c, 0)) + Level(cur, dep, Ahead(c, 4))
                  + Level(cur, dep, Ahead(c, 6)) + Level(cur, dep, Ahead(c, 2))
           out == Share(v, DiffNum, DiffDen)
           far == Share(in, DiffNum, DiffDen)
           mix == v - out + far \div 4
           low == Share(mix, EvapNum, EvapDen)
<1>2. v \in Nat /\ in \in Nat
  BY <1>1
<1> HIDE DEF v, in
<1>3. out \in 0 .. v /\ far \in 0 .. in
  <2>1. DiffNum \in Nat /\ DiffDen \in Nat \ {0} /\ DiffNum <= DiffDen
    BY ConfigAssumption
  <2> QED BY <1>2, <2>1, ShareBound
<1> HIDE DEF out, far
<1>4. mix \in Nat
  BY <1>2, <1>3
<1> HIDE DEF mix
<1>5. low \in 0 .. mix
  BY <1>4, ShareBound, ConfigAssumption
<1>6. Decayed(cur, dep, c) = IF low > MaxLevel THEN MaxLevel ELSE low
  BY DEF Decayed, low, mix, out, far, in, v
<1> HIDE DEF low
<1> QED BY <1>4, <1>5, <1>6, ConfigAssumption
=============================================================================
