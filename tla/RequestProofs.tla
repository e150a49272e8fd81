---------------------------- MODULE RequestProofs ----------------------------
(***************************************************************************)
(* A request on its way in and its answer on the way out: what an admitted *)
(* configuration guarantees (Admission), how the ants draw in the world    *)
(* built from it (Setup), and that a body arrives as its handler wrote it  *)
(* (Transport, which shares no state with the others).                     *)
(***************************************************************************)
EXTENDS Setup, Transport, SequenceTheorems, FiniteSetTheorems, WellFoundedInduction, TLAPS

(***************************************************************************)
(* Admission: for documents with any number of walls and piles, any        *)
(* limits, and any width of Go's int.                                      *)
(***************************************************************************)
AdmissionSpec == AdmissionInit /\ [][AdmissionNext]_admissionVars

Steps == {"received", "loaded", "overridden", "valid", "within", "admitted", "refused"}

\* Validate looks at the configuration after the overrides, so whatever comes
\* later is sound; checkLimits looks at it after that.
AdmissionInv ==
  /\ req \in Requests /\ step \in Steps
  /\ step \in {"loaded", "overridden", "valid", "within", "admitted"} => cfg \in Configs
  /\ step \in {"valid", "within", "admitted"} => Valid(cfg)
  /\ step \in {"within", "admitted"} /\ req.kind # "antsim" /\ ~Unlimited => ~ExceedsLimits(cfg)
  /\ step = "admitted" => count \in Nat /\ count >= 1

LEMMA AdmissionInvInit == AdmissionInit => AdmissionInv
BY DEF AdmissionInit, AdmissionInv, Steps

LEMMA AdmissionInvNext == AdmissionInv /\ [AdmissionNext]_admissionVars => AdmissionInv'
<1> SUFFICES ASSUME AdmissionInv, [AdmissionNext]_admissionVars PROVE AdmissionInv'
  OBVIOUS
<1>1. CASE Load
  <2>1. req.doc \in {None} \cup Configs
    BY AdmissionAssumption DEF AdmissionInv, Asks
  <2> QED
    BY <1>1, <2>1 DEF Load, Go, AdmissionInv, Steps
<1>2. CASE Override
  <2>1. cfg \in Configs /\ req \in Asks
    BY <1>2, AdmissionAssumption DEF Override, AdmissionInv
  <2>2. RunConfig \in Configs /\ BenchConfig \in Configs /\ SimConfig \in Configs
    <3>1. /\ Given(req.seed, cfg.seed) \in Nat /\ Flag(req.seed, cfg.seed) \in Nat
          /\ Given(req.ticks, cfg.ticks) \in Ints /\ Flag(req.ticks, cfg.ticks) \in Ints
          /\ Given(req.ants, cfg.ants) \in Ints
      BY <2>1 DEF Given, Flag, Configs, Asks
    <3>2. /\ RunConfig = [cfg EXCEPT !.seed = Given(req.seed, cfg.seed),
                                     !.ticks = Given(req.ticks, cfg.ticks),
                                     !.ants = Given(req.ants, cfg.ants)]
          /\ BenchConfig = [cfg EXCEPT !.seed = Given(req.seed, cfg.seed),
                                       !.ticks = Given(req.ticks, cfg.ticks)]
          /\ SimConfig = [cfg EXCEPT !.seed = Flag(req.seed, cfg.seed),
                                     !.ticks = Flag(req.ticks, cfg.ticks)]
      BY <2>1 DEF RunConfig, BenchConfig, SimConfig, Configs
    <3>3. ASSUME NEW s \in Nat, NEW n \in Ints, NEW a \in Ints
          PROVE  /\ [cfg EXCEPT !.seed = s, !.ticks = n] \in Configs
                 /\ [cfg EXCEPT !.seed = s, !.ticks = n, !.ants = a] \in Configs
      BY <2>1, <3>3 DEF Configs
    <3> QED
      BY <3>1, <3>2, <3>3
  <2>3. req.kind \in {"run", "bench", "antsim"}
    BY <2>1 DEF Asks
  <2> QED
    BY <1>2, <2>2, <2>3 DEF Override, Go, AdmissionInv, Steps
<1>3. CASE Validate
  BY <1>3 DEF Validate, Go, Sound, AdmissionInv, Steps
<1>4. CASE CheckLimits
  BY <1>4 DEF CheckLimits, Go, AdmissionInv, Steps
<1>5. CASE Admit
  <2>1. req.count \in Int
    BY AdmissionAssumption DEF AdmissionInv, Asks, Ints
  <2>2. AtLeastOne(req.count) \in Nat /\ AtLeastOne(req.count) >= 1
    BY <2>1 DEF AtLeastOne
  <2> QED
    BY <1>5, <2>2 DEF Admit, Go, AdmissionInv, Steps
<1>6. CASE Reject
  BY <1>6 DEF Reject, Go, AdmissionInv, Steps
<1>7. CASE UNCHANGED admissionVars
  BY <1>7 DEF admissionVars, AdmissionInv
<1> QED
  BY <1>1, <1>2, <1>3, <1>4, <1>5, <1>6, <1>7 DEF AdmissionNext

LEMMA IntsAreIntegers == Ints \subseteq Int /\ \A a, b \in Int : Wrap(a + b) \in Int
<1>1. IntRange \in Nat \ {0} /\ IntRange \div 2 \in Int
  BY AdmissionAssumption
<1>2. \A x \in Int : (x % IntRange) \in Int
  BY <1>1
<1> QED
  BY <1>1, <1>2 DEF Ints, Wrap

-----------------------------------------------------------------------------
\* The walls that newWorld marks lie on the grid and off the nest and the food.
LEMMA ValidWalls ==
  ASSUME NEW c \in Configs, Valid(c)
  PROVE  /\ c.width > 0 /\ c.height > 0 /\ c.ticks >= 0 /\ c.ants > 0
         /\ Marked(c) \subseteq (0 .. c.width - 1) \X (0 .. c.height - 1)
         /\ InBounds(c, c.nest) /\ c.nest \notin Marked(c)
         /\ \A m \in DOMAIN c.food : InBounds(c, c.food[m].at) /\ c.food[m].at \notin Marked(c)
<1>1. c.width \in Int /\ c.height \in Int /\ c.nest \in Points
  BY IntsAreIntegers DEF Configs
<1>2. ASSUME NEW p \in Marked(c)
      PROVE  \E m \in DOMAIN c.walls :
               /\ p \in (c.walls[m].x .. Wrap(c.walls[m].x + c.walls[m].w) - 1)
                        \X (c.walls[m].y .. Wrap(c.walls[m].y + c.walls[m].h) - 1)
               /\ c.walls[m] \in Rectangles
               /\ WallOK(c, c.walls[m])
  <2>1. c.walls \in Seq(Rectangles)
    BY DEF Configs
  <2>2. PICK m \in DOMAIN c.walls :
          p \in (c.walls[m].x .. Wrap(c.walls[m].x + c.walls[m].w) - 1)
               \X (c.walls[m].y .. Wrap(c.walls[m].y + c.walls[m].h) - 1)
    BY <1>2, Zenon DEF Marked
  <2>3. c.walls[m] \in Rectangles
    BY <2>1
  <2>4. WallOK(c, c.walls[m])
    BY DEF Valid
  <2> QED
    BY <2>2, <2>3, <2>4
<1>3. ASSUME NEW p \in Marked(c)
      PROVE  /\ p \in (0 .. c.width - 1) \X (0 .. c.height - 1)
             /\ \E m \in DOMAIN c.walls : Contains(c.walls[m], p) /\ WallOK(c, c.walls[m])
  <2>1. PICK m \in DOMAIN c.walls :
               /\ p \in (c.walls[m].x .. Wrap(c.walls[m].x + c.walls[m].w) - 1)
                        \X (c.walls[m].y .. Wrap(c.walls[m].y + c.walls[m].h) - 1)
               /\ c.walls[m] \in Rectangles
               /\ WallOK(c, c.walls[m])
    BY <1>2
  <2> DEFINE r == c.walls[m]
  <2>2. r.x \in Int /\ r.y \in Int /\ Wrap(r.x + r.w) \in Int /\ Wrap(r.y + r.h) \in Int
    BY <2>1, IntsAreIntegers DEF Rectangles
  <2> HIDE DEF r
  <2>3. p \in (r.x .. Wrap(r.x + r.w) - 1) \X (r.y .. Wrap(r.y + r.h) - 1) /\ WallOK(c, r)
    BY <2>1 DEF r
  <2>4. p[1] \in r.x .. Wrap(r.x + r.w) - 1 /\ p[2] \in r.y .. Wrap(r.y + r.h) - 1
        /\ p = <<p[1], p[2]>>
    BY <2>3
  <2>5. Contains(r, p)
    BY <2>2, <2>4 DEF Contains
  <2>6. p[1] \in 0 .. c.width - 1 /\ p[2] \in 0 .. c.height - 1
    BY <1>1, <2>2, <2>3, <2>4 DEF WallOK, Escapes
  <2> QED
    BY <2>3, <2>4, <2>5, <2>6 DEF r
<1>4. Marked(c) \subseteq (0 .. c.width - 1) \X (0 .. c.height - 1) /\ c.nest \notin Marked(c)
  BY <1>3 DEF WallOK
<1>5. ASSUME NEW m \in DOMAIN c.food
      PROVE  InBounds(c, c.food[m].at) /\ c.food[m].at \notin Marked(c)
  BY <1>3, <1>5 DEF Valid, PileOK
<1> QED
  BY <1>4, <1>5 DEF Valid

\* Every engine may rely on the grid it is given (load.go 36-103, naive.go
\* 139-153): the walls are on it and leave the nest and the food free, whatever
\* the overrides and whichever sum of a wall's numbers wraps around.
THEOREM EnginesRelyOnAdmission == AdmissionSpec => []EnginesMayRelyOnIt
<1>1. AdmissionInv => EnginesMayRelyOnIt
  BY ValidWalls DEF AdmissionInv, EnginesMayRelyOnIt, Admitted
<1> QED
  BY <1>1, AdmissionInvInit, AdmissionInvNext, PTL DEF AdmissionSpec

-----------------------------------------------------------------------------
\* Factors within their limits have a product that does not wrap.
LEMMA ProductIsReal ==
  ASSUME NEW a \in Nat, NEW b \in Nat, NEW m \in Nat, NEW n \in Nat,
         a <= m, b <= n, 2 * m * n < IntRange
  PROVE  Wrap(a * b) = a * b
<1>1. a * b \in Nat /\ m * b \in Nat /\ m * n \in Nat
  OBVIOUS
<1>2. a * b <= m * b
  OBVIOUS
<1>3. m * b <= m * n
  OBVIOUS
<1>4. 2 * (a * b) < IntRange
  <2>1. 2 * m * n = 2 * (m * n)
    OBVIOUS
  <2> DEFINE x == a * b
             y == m * b
             z == m * n
  <2>2. x \in Nat /\ y \in Nat /\ z \in Nat /\ x <= y /\ y <= z /\ 2 * z < IntRange
    BY <1>1, <1>2, <1>3, <2>1
  <2> HIDE DEF x, y, z
  <2>3. 2 * x < IntRange
    BY <2>2, AdmissionAssumption
  <2> QED
    BY <2>3 DEF x
<1> DEFINE p == a * b
<1>5. p \in Nat /\ 2 * p < IntRange
  BY <1>1, <1>4
<1> HIDE DEF p
<1>6. ((p + IntRange \div 2) % IntRange) - IntRange \div 2 = p
  <2> DEFINE W == IntRange
             h == W \div 2
             z == p + h
  <2>1. W \in Nat \ {0} /\ h \in Nat /\ W = 2 * h
    BY AdmissionAssumption
  <2> HIDE DEF W, h
  <2>2. z \in 0 .. W - 1 /\ z - h = p
    BY <1>5, <2>1 DEF W
  <2> HIDE DEF z
  <2>3. z % W = z
    BY <2>1, <2>2
  <2> QED
    BY <2>2, <2>3 DEF z, h, W
<1> QED
  BY <1>6 DEF Wrap, p

\* checkLimits compares the factors before their product (limits.go 55-72), so
\* that a product which wrapped around never passes for a small one.
THEOREM LimitsHold == AdmissionSpec => []CapsAreReal
<1>1. AdmissionInv => CapsAreReal
  <2> SUFFICES ASSUME AdmissionInv, Admitted, req.kind # "antsim", ~Unlimited
               PROVE  /\ cfg.width * cfg.height <= MaxCells
                      /\ cfg.ants * cfg.ticks <= MaxAntTicks /\ count >= 1
    BY DEF CapsAreReal
  <2>1. cfg \in Configs /\ Valid(cfg) /\ ~ExceedsLimits(cfg) /\ count >= 1
    BY DEF AdmissionInv, Admitted
  <2>2. cfg.width \in Nat /\ cfg.height \in Nat /\ cfg.ants \in Nat /\ cfg.ticks \in Nat
    <3>1. /\ cfg.width \in Int /\ cfg.height \in Int /\ cfg.ants \in Int /\ cfg.ticks \in Int
      BY <2>1, IntsAreIntegers DEF Configs
    <3>2. cfg.width > 0 /\ cfg.height > 0 /\ cfg.ants > 0 /\ cfg.ticks >= 0
      BY <2>1 DEF Valid
    <3> QED
      BY <3>1, <3>2
  <2>3. cfg.width <= MaxCells /\ cfg.height <= MaxCells /\ cfg.ants <= MaxAnts /\ cfg.ticks <= MaxTicks
    <3>1. /\ ~(cfg.width > MaxCells) /\ ~(cfg.height > MaxCells)
          /\ ~(cfg.ants > MaxAnts) /\ ~(cfg.ticks > MaxTicks)
      BY <2>1 DEF ExceedsLimits, TooManyCells, TooMuchWork
    <3>2. MaxCells \in Nat /\ MaxAnts \in Nat /\ MaxTicks \in Nat
      BY AdmissionAssumption
    <3> QED
      BY <2>2, <3>1, <3>2
  <2>4. Wrap(cfg.width * cfg.height) = cfg.width * cfg.height
    BY <2>2, <2>3, AdmissionAssumption, ProductIsReal
  <2>5. Wrap(cfg.ants * cfg.ticks) = cfg.ants * cfg.ticks
    BY <2>2, <2>3, AdmissionAssumption, ProductIsReal
  <2>6. ~(Wrap(cfg.width * cfg.height) > MaxCells) /\ ~(Wrap(cfg.ants * cfg.ticks) > MaxAntTicks)
    BY <2>1 DEF ExceedsLimits, TooManyCells, TooMuchWork
  <2>7. cfg.width * cfg.height \in Nat /\ cfg.ants * cfg.ticks \in Nat
    BY <2>2
  <2> QED
    BY <2>1, <2>4, <2>5, <2>6, <2>7, AdmissionAssumption
<1> QED
  BY <1>1, AdmissionInvInit, AdmissionInvNext, PTL DEF AdmissionSpec

-----------------------------------------------------------------------------
(***************************************************************************)
(* Setup: the generators of a colony, for words of any even width, any odd *)
(* multipliers and any shifts.                                             *)
(***************************************************************************)
Before == {ss \in Nat \X Nat : ss[1] < ss[2]}

\* Induction on 0 .. N, for a set.
LEMMA UpTo ==
  ASSUME NEW N \in Nat, NEW S, 0 \in S, \A m \in 0 .. N - 1 : m \in S => m + 1 \in S
  PROVE  0 .. N \subseteq S
<1> DEFINE T == (0 .. N) \ S
<1> SUFFICES ASSUME T # {} PROVE FALSE
  OBVIOUS
<1>1. IsWellFoundedOn(Before, Nat)
  BY NatLessThanWellFounded DEF OpToRel, Before
<1>2. T \subseteq Nat
  OBVIOUS
<1>3. PICK x \in T : \A y \in T : ~(<<y, x>> \in Before)
  BY <1>1, <1>2, WFMin
<1>4. x \in 1 .. N
  OBVIOUS
<1>5. \A m, k \in Nat : m < k => <<m, k>> \in Before
  BY DEF Before
<1>6. x - 1 \in Nat /\ x \in Nat /\ x - 1 < x
  BY <1>4
<1>7. x - 1 \notin T
  BY <1>3, <1>5, <1>6
<1> QED
  BY <1>4, <1>7

-----------------------------------------------------------------------------
\* A quotient is the only number that leaves a remainder.
LEMMA Quotient ==
  ASSUME NEW x \in Nat, NEW a \in Nat \ {0}, NEW q \in Nat, NEW r \in 0 .. a - 1,
         x = a * q + r
  PROVE  x \div a = q /\ x % a = r
<1> DEFINE p == x \div a
           s == x % a
<1>1. p \in Nat /\ s \in 0 .. a - 1 /\ x = a * p + s
  OBVIOUS
<1> HIDE DEF p, s
<1>2. ASSUME p >= q + 1 PROVE FALSE
  <2>1. a * p >= a * (q + 1) /\ a * (q + 1) = a * q + a
    BY <1>1, <1>2
  <2> QED
    BY <1>1, <2>1
<1>3. ASSUME q >= p + 1 PROVE FALSE
  <2>1. a * q >= a * (p + 1) /\ a * (p + 1) = a * p + a
    BY <1>1, <1>3
  <2> QED
    BY <1>1, <2>1
<1>4. p = q
  BY <1>1, <1>2, <1>3
<1> QED
  BY <1>1, <1>4 DEF p, s

\* To divide twice is to divide by the product.
LEMMA DivDiv ==
  ASSUME NEW x \in Nat, NEW a \in Nat \ {0}, NEW b \in Nat \ {0}
  PROVE  (x \div a) \div b = x \div (a * b)
<1>1. a * b \in Nat \ {0}
  OBVIOUS
<1> DEFINE p == x \div a
           r == x % a
           q == p \div b
           s == p % b
<1>2. p \in Nat /\ r \in 0 .. a - 1 /\ x = a * p + r
  OBVIOUS
<1>3. q \in Nat /\ s \in 0 .. b - 1 /\ p = b * q + s
  BY <1>2
<1> HIDE DEF p, r, q, s
<1>4. a * p = a * (b * q) + a * s /\ a * (b * q) = (a * b) * q
  BY <1>2, <1>3
<1>5. a * s \in Nat /\ a * s <= a * (b - 1) /\ a * (b - 1) = a * b - a
  BY <1>3
<1>6. a * s + r \in 0 .. a * b - 1 /\ x = (a * b) * q + (a * s + r)
  BY <1>1, <1>2, <1>3, <1>4, <1>5
<1>7. x \div (a * b) = q
  BY <1>1, <1>3, <1>6, Quotient
<1> QED
  BY <1>7 DEF p, q

\* The powers of two up to the size of a word.
LEMMA Powers ==
  /\ Bits \in Nat \ {0} /\ WordSize \in Nat \ {0} /\ WordSize = 2 ^ Bits /\ 2 ^ 0 = 1
  /\ \A b \in 0 .. Bits : 2 ^ b \in Nat \ {0} /\ 2 ^ (b + 1) = 2 * 2 ^ b
  /\ WordSize \div 2 \in Nat \ {0} /\ WordSize = 2 * (WordSize \div 2)
<1>1. Bits \in Nat \ {0} /\ WordSize \in Nat \ {0} /\ WordSize = 2 ^ Bits /\ 2 ^ 0 = 1
  BY RngAssumption, BitsAssumption DEF WordSize
<1>2. \A b \in 0 .. Bits : 2 ^ b \in Nat \ {0} /\ 2 ^ (b + 1) = 2 * 2 ^ b
  BY BitsAssumption
<1>3. Bits - 1 \in 0 .. Bits /\ (Bits - 1) + 1 = Bits
  BY <1>1
<1>4. 2 ^ (Bits - 1) \in Nat \ {0} /\ WordSize = 2 * 2 ^ (Bits - 1)
  BY <1>1, <1>2, <1>3
<1> QED
  BY <1>1, <1>2, <1>4

\* What is kept of a number after an overflow is a word.
LEMMA LowIsAWord == \A x \in Nat : Low(x) \in Words
BY Powers DEF Low, Words

\* ^ of two words is a word, in either order.
LEMMA XorIsAWord ==
  \A x, y \in Words : XorOf[x][y] \in Words /\ XorOf[x][y] = XorOf[y][x]
<1>1. XorOf \in [Words -> [Words -> Words]] /\ \A x, y \in Words : XorOf[x][y] = XorOf[y][x]
  BY XorAssumption, Zenon
<1> QED
  BY <1>1

\* A second ^ undoes the first.
LEMMA XorUndone == \A x, y \in Words : XorOf[x][XorOf[x][y]] = y
BY XorAssumption, Zenon

\* Half a word is a word, and a word has no more than Bits bits.
LEMMA Halves ==
  ASSUME NEW x \in Words, NEW b \in 0 .. Bits
  PROVE  /\ x \in Nat /\ x \div 2 ^ b \in Words
         /\ (x \div 2 ^ b) \div 2 = x \div 2 ^ (b + 1)
         /\ b = Bits => x \div 2 ^ b = 0
<1> DEFINE a == 2 ^ b
<1>1. a \in Nat \ {0} /\ 2 ^ (b + 1) = a * 2 /\ x \in Nat /\ x < WordSize
  BY Powers DEF Words
<1>2. b = Bits => a = WordSize
  BY Powers
<1> HIDE DEF a
<1>3. (x \div a) \div 2 = x \div 2 ^ (b + 1)
  <2> DEFINE t == 2
  <2>1. a \in Nat \ {0} /\ t \in Nat \ {0} /\ x \in Nat
    BY <1>1
  <2>2. 2 ^ (b + 1) = a * t
    BY <1>1
  <2> HIDE DEF t
  <2>3. (x \div a) \div t = x \div (a * t)
    BY <2>1, DivDiv, Zenon
  <2> QED
    BY <2>2, <2>3 DEF t
<1>4. x \div a \in Nat /\ x \div a <= x
  <2> DEFINE q == x \div a
  <2>1. q \in Nat /\ a * q <= x
    BY <1>1
  <2> HIDE DEF q
  <2>2. 1 * q <= a * q
    BY <1>1, <2>1
  <2> QED
    BY <1>1, <2>1, <2>2 DEF q
<1>5. x \div a \in Words
  BY <1>1, <1>4, Powers DEF Words
<1>6. b = Bits => x \div a = 0
  BY <1>1, <1>2
<1> QED
  BY <1>1, <1>3, <1>5, <1>6 DEF a

\* The bits of a ^ do not mix.
LEMMA XorDiv ==
  ASSUME NEW x \in Words, NEW y \in Words, NEW k \in 0 .. Bits
  PROVE  XorOf[x][y] \div 2 ^ k = XorOf[x \div 2 ^ k][y \div 2 ^ k]
<1> DEFINE S == {b \in 0 .. Bits : XorOf[x][y] \div 2 ^ b = XorOf[x \div 2 ^ b][y \div 2 ^ b]}
<1>1. 0 \in S
  <2>1. x \div 2 ^ 0 = x /\ y \div 2 ^ 0 = y /\ XorOf[x][y] \div 2 ^ 0 = XorOf[x][y]
    BY Powers, XorIsAWord DEF Words
  <2> QED
    BY <2>1, Powers
<1>2. ASSUME NEW m \in 0 .. Bits - 1, m \in S PROVE m + 1 \in S
  <2>1. m \in 0 .. Bits /\ m + 1 \in 0 .. Bits
    BY Powers
  <2> DEFINE u == x \div 2 ^ m
             v == y \div 2 ^ m
             w == XorOf[x][y]
  <2>2. u \in Words /\ v \in Words /\ w \in Words
    BY <2>1, Halves, XorIsAWord
  <2>3. u \div 2 = x \div 2 ^ (m + 1) /\ v \div 2 = y \div 2 ^ (m + 1)
        /\ (w \div 2 ^ m) \div 2 = w \div 2 ^ (m + 1)
    BY <2>1, <2>2, Halves
  <2>4. w \div 2 ^ m = XorOf[u][v]
    BY <1>2
  <2>5. XorOf[u][v] \div 2 = XorOf[u \div 2][v \div 2]
    BY <2>2, XorAssumption
  <2>6. w \div 2 ^ (m + 1) = XorOf[x \div 2 ^ (m + 1)][y \div 2 ^ (m + 1)]
    BY <2>3, <2>4, <2>5
  <2> QED
    BY <2>1, <2>6
<1>3. 0 .. Bits \subseteq S
  <2> HIDE DEF S
  <2> QED
    BY <1>1, <1>2, UpTo, Powers
<1> QED
  BY <1>3

\* z ^ (z >> m) keeps z: from the highest bit down, each of its bits is the
\* word's, or the word's and one that is known.
LEMMA ShiftInjective ==
  ASSUME NEW m \in 1 .. Bits - 1, NEW z \in Words, NEW w \in Words,
         XorOf[z][z \div 2 ^ m] = XorOf[w][w \div 2 ^ m]
  PROVE  z = w
<1> DEFINE S == {k \in 0 .. Bits : z \div 2 ^ (Bits - k) = w \div 2 ^ (Bits - k)}
<1>1. 0 \in S
  BY Halves, Powers
<1>2. ASSUME NEW i \in 0 .. Bits - 1, i \in S PROVE i + 1 \in S
  <2> DEFINE k == Bits - (i + 1)
  <2>1. k \in 0 .. Bits - 1 /\ k + 1 = Bits - i /\ i + 1 \in 0 .. Bits
    BY Powers
  <2> HIDE DEF k
  <2>2. z \div 2 ^ (k + 1) = w \div 2 ^ (k + 1)
    BY <1>2, <2>1
  <2>3. \A x \in Words : (x \div 2 ^ m) \div 2 ^ k = (x \div 2 ^ (k + 1)) \div 2 ^ (m - 1)
    <3> SUFFICES ASSUME NEW x \in Words
                 PROVE  (x \div 2 ^ m) \div 2 ^ k = (x \div 2 ^ (k + 1)) \div 2 ^ (m - 1)
      OBVIOUS
    <3> DEFINE a == 2 ^ (m - 1)
               b == 2 ^ k
    <3>1. m - 1 \in 0 .. Bits /\ k \in 0 .. Bits /\ (m - 1) + 1 = m
      BY <2>1, Powers
    <3>2. a \in Nat \ {0} /\ b \in Nat \ {0} /\ 2 ^ m = 2 * a /\ 2 ^ (k + 1) = 2 * b /\ x \in Nat
      BY <3>1, Powers DEF Words
    <3> HIDE DEF a, b
    <3> DEFINE p == 2 * a
               q == 2 * b
    <3>3. p * b = q * a /\ 2 ^ m = p /\ 2 ^ (k + 1) = q
      BY <3>2
    <3>4. x \in Nat /\ p \in Nat \ {0} /\ q \in Nat \ {0} /\ a \in Nat \ {0} /\ b \in Nat \ {0}
      BY <3>2
    <3> HIDE DEF p, q
    <3>5. (x \div p) \div b = x \div (p * b) /\ (x \div q) \div a = x \div (q * a)
      BY <3>4, DivDiv
    <3>6. (x \div 2 ^ m) \div b = (x \div 2 ^ (k + 1)) \div a
      BY <3>3, <3>5, Zenon
    <3> QED
      BY <3>6 DEF a, b
  <2> DEFINE c == (z \div 2 ^ m) \div 2 ^ k
             u == z \div 2 ^ k
             v == w \div 2 ^ k
  <2>4. c = (w \div 2 ^ m) \div 2 ^ k
    BY <2>2, <2>3
  <2>5. m \in 0 .. Bits /\ k \in 0 .. Bits
    BY <2>1, Powers
  <2>6. z \div 2 ^ m \in Words /\ w \div 2 ^ m \in Words /\ u \in Words /\ v \in Words
    BY <2>5, Halves
  <2>7. c \in Words
    BY <2>5, <2>6, Halves
  <2>8. XorOf[u][c] = XorOf[v][c]
    BY <2>4, <2>5, <2>6, XorDiv
  <2> HIDE DEF c, u, v
  <2>9. XorOf[c][u] = XorOf[c][v]
    BY <2>6, <2>7, <2>8, XorIsAWord
  <2>10. u = v
    <3>1. \A x \in Words : XorOf[c][XorOf[c][x]] = x
      BY <2>7, XorUndone
    <3>2. u \in Words /\ v \in Words
      BY <2>6 DEF u, v
    <3>3. XorOf[c][XorOf[c][u]] = u /\ XorOf[c][XorOf[c][v]] = v
      BY <3>1, <3>2
    <3> QED
      BY <2>9, <3>3
  <2> QED
    BY <2>1, <2>10 DEF u, v, k
<1>3. 0 .. Bits \subseteq S
  <2> HIDE DEF S
  <2> QED
    BY <1>1, <1>2, UpTo, Powers
<1>4. z \div 2 ^ 0 = w \div 2 ^ 0
  <2>1. Bits \in 0 .. Bits
    BY Powers
  <2>2. Bits \in S
    BY <1>3, <2>1
  <2>3. Bits - Bits = 0
    BY Powers
  <2> QED
    BY <2>2, <2>3
<1> QED
  BY <1>4, Powers DEF Words

\* A power of two that divides a product divides its even factor.
LEMMA OddFactor ==
  ASSUME NEW m \in Nat, m % 2 = 1, NEW d \in Nat, NEW p \in Nat, d * m = WordSize * p
  PROVE  \E r \in Nat : d = WordSize * r
<1> DEFINE Divides(b) ==
             \A x, q \in Nat : x * m = 2 ^ b * q => \E r \in Nat : x = 2 ^ b * r
           S == {b \in 0 .. Bits : Divides(b)}
<1>1. 0 \in S
  <2>1. \A x \in Nat : x = 2 ^ 0 * x
    BY Powers
  <2> QED
    BY <2>1, Powers
<1>2. ASSUME NEW b \in 0 .. Bits - 1, b \in S PROVE b + 1 \in S
  <2> DEFINE a == 2 ^ b
  <2>1. b \in 0 .. Bits /\ b + 1 \in 0 .. Bits /\ a \in Nat \ {0} /\ 2 ^ (b + 1) = 2 * a
    BY Powers
  <2>2. \A x, q \in Nat : x * m = a * q => \E r \in Nat : x = a * r
    BY <1>2
  <2> HIDE DEF a
  <2>3. ASSUME NEW x \in Nat, NEW q \in Nat, x * m = (2 * a) * q
        PROVE  \E r \in Nat : x = (2 * a) * r
    <3> DEFINE y == x \div 2
               n == m \div 2
               w == a * q
    <3>1. y \in Nat /\ n \in Nat /\ m = 2 * n + 1 /\ x \in {2 * y, 2 * y + 1}
      OBVIOUS
    <3>2. w \in Nat /\ x * m = 2 * w
      BY <2>1, <2>3
    <3> HIDE DEF y, n, w
    <3>3. x * m = 2 * (x * n) + x /\ x * n \in Nat
      BY <3>1
    <3>4. x = 2 * y
      BY <3>1, <3>2, <3>3
    <3>5. x * m = 2 * (y * m) /\ y * m \in Nat
      BY <3>1, <3>4
    <3>6. y * m = w
      BY <3>2, <3>5
    <3>7. PICK r \in Nat : y = a * r
      BY <2>2, <3>1, <3>6 DEF w
    <3>8. x = (2 * a) * r
      BY <2>1, <3>4, <3>7
    <3> QED
      BY <3>8
  <2>4. Divides(b + 1)
    <3> DEFINE c == 2 * a
    <3> HIDE DEF c
    <3>1. \A x, q \in Nat : x * m = c * q => \E r \in Nat : x = c * r
      BY <2>3 DEF c
    <3>2. 2 ^ (b + 1) = c
      BY <2>1 DEF c
    <3> QED
      BY <3>1, <3>2, Zenon
  <2> QED
    BY <2>1, <2>4
<1>3. 0 .. Bits \subseteq S
  <2> HIDE DEF S
  <2> QED
    BY <1>1, <1>2, UpTo, Powers
<1>4. Bits \in 0 .. Bits
  BY Powers
<1>5. Divides(Bits)
  BY <1>3, <1>4
<1> QED
  BY <1>5, Powers

\* Numbers that overflow to the same word lie whole word sizes apart.
LEMMA SameRemainder ==
  ASSUME NEW f \in Nat, NEW g \in Nat, g <= f, f % WordSize = g % WordSize
  PROVE  \E k \in Nat : f - g = WordSize * k
<1> DEFINE W == WordSize
           h == f \div W
           i == g \div W
           r == f % W
<1>1. W \in Nat \ {0}
  BY Powers
<1> HIDE DEF W
<1>2. h \in Nat /\ i \in Nat /\ r \in 0 .. W - 1 /\ f = W * h + r /\ g = W * i + r
  <2>1. g % W = r
    BY DEF W
  <2>2. g = W * i + (g % W) /\ f = W * h + (f % W)
    BY <1>1
  <2> QED
    BY <1>1, <2>1, <2>2
<1> HIDE DEF h, i, r
<1>3. W * h \in Nat /\ W * i \in Nat
  BY <1>1, <1>2
<1>4. ASSUME i >= h + 1 PROVE FALSE
  <2>1. W * i >= W * (h + 1) /\ W * (h + 1) = W * h + W
    BY <1>1, <1>2, <1>4
  <2> QED
    BY <1>1, <1>2, <1>3, <2>1
<1>5. h - i \in Nat
  BY <1>2, <1>4
<1>6. W * (h - i) = W * h - W * i
  BY <1>1, <1>2
<1>7. f - g = W * (h - i)
  BY <1>2, <1>3, <1>6
<1> QED
  BY <1>5, <1>7 DEF W

\* A word times an odd number keeps the word.
LEMMA MulInjective ==
  ASSUME NEW m \in Nat, m % 2 = 1, NEW x \in Words, NEW y \in Words,
         Low(x * m) = Low(y * m)
  PROVE  x = y
<1>1. ASSUME NEW u \in Words, NEW v \in Words, Low(u * m) = Low(v * m), u >= v PROVE u = v
  <2>1. u \in Nat /\ v \in Nat /\ u < WordSize /\ v < WordSize /\ WordSize \in Nat \ {0}
    BY Powers DEF Words
  <2> DEFINE f == u * m
             g == v * m
             d == u - v
  <2>2. f \in Nat /\ g \in Nat /\ d \in Nat /\ d * m = f - g
    BY <1>1, <2>1
  <2>3. g <= f
    BY <1>1, <2>1
  <2>4. f % WordSize = g % WordSize
    BY <1>1 DEF Low
  <2> HIDE DEF f, g
  <2>5. PICK k \in Nat : f - g = WordSize * k
    BY <2>1, <2>2, <2>3, <2>4, SameRemainder
  <2>7. d * m = WordSize * k
    BY <2>2, <2>5
  <2> HIDE DEF d
  <2>8. PICK r \in Nat : d = WordSize * r
    BY <2>2, <2>5, <2>7, OddFactor
  <2>9. d = 0
    <3>1. d < WordSize
      BY <2>1 DEF d
    <3>2. r >= 1 => WordSize * r >= WordSize
      BY <2>1
    <3> QED
      BY <2>1, <2>8, <3>1, <3>2
  <2> QED
    BY <2>1, <2>9 DEF d
<1>2. x \in Nat /\ y \in Nat
  BY Powers DEF Words
<1> QED
  BY <1>1, <1>2

\* A word plus a number keeps the word.
LEMMA AddInjective ==
  ASSUME NEW a \in Nat, NEW x \in Words, NEW y \in Words, Low(x + a) = Low(y + a)
  PROVE  x = y
<1>1. ASSUME NEW u \in Words, NEW v \in Words, Low(u + a) = Low(v + a), u >= v PROVE u = v
  <2>1. u \in Nat /\ v \in Nat /\ u < WordSize /\ v < WordSize /\ WordSize \in Nat \ {0}
    BY Powers DEF Words
  <2> DEFINE f == u + a
             g == v + a
  <2>5. f \in Nat /\ g \in Nat /\ g <= f /\ f - g = u - v
    BY <1>1, <2>1
  <2>6. f % WordSize = g % WordSize
    BY <1>1 DEF Low
  <2> HIDE DEF f, g
  <2>2. PICK k \in Nat : f - g = WordSize * k
    BY <2>5, <2>6, SameRemainder
  <2>3. k >= 1 => WordSize * k >= WordSize
    BY <2>1
  <2>4. k = 0 => WordSize * k = 0
    BY <2>1
  <2> QED
    BY <2>1, <2>2, <2>3, <2>4, <2>5
<1>2. x \in Nat /\ y \in Nat
  BY Powers DEF Words
<1> QED
  BY <1>1, <1>2

\* It does not matter to a sum whether it overflows once or twice.
LEMMA LowAdds ==
  ASSUME NEW x \in Nat, NEW a \in Nat
  PROVE  Low(Low(x) + a) = Low(x + a)
<1> DEFINE W == WordSize
           h == x \div W
           r == x % W
           i == (r + a) \div W
           e == (r + a) % W
<1>1. W \in Nat \ {0}
  BY Powers
<1> HIDE DEF W
<1>2. h \in Nat /\ r \in 0 .. W - 1 /\ x = W * h + r
  BY <1>1
<1>3. i \in Nat /\ e \in 0 .. W - 1 /\ r + a = W * i + e
  BY <1>1, <1>2
<1> HIDE DEF h, r, i, e
<1>4. W * h \in Nat /\ W * i \in Nat /\ W * (h + i) = W * h + W * i /\ h + i \in Nat
  BY <1>1, <1>2, <1>3
<1>5. x + a = W * (h + i) + e /\ x + a \in Nat
  BY <1>2, <1>3, <1>4
<1>6. (x + a) % W = e
  BY <1>1, <1>3, <1>4, <1>5, Quotient
<1> QED
  BY <1>6 DEF Low, W, r, e

\* SplitMix64 returns words.
LEMMA MixedIsAWord == \A z \in Words : Mixed(z) \in Words
<1> SUFFICES ASSUME NEW z \in Words PROVE Mixed(z) \in Words
  OBVIOUS
<1> DEFINE A == Low(XorOf[z][z \div 2 ^ Mix1] * Mul1)
           B == Low(XorOf[A][A \div 2 ^ Mix2] * Mul2)
<1>1. /\ Mix1 \in 0 .. Bits /\ Mix2 \in 0 .. Bits /\ Mix3 \in 0 .. Bits
      /\ Mul1 \in Nat /\ Mul2 \in Nat
  BY RngAssumption, Powers DEF Words
<1>2. \A m \in 0 .. Bits : \A x \in Words : XorOf[x][x \div 2 ^ m] \in Words
  BY Halves, XorIsAWord
<1>3. \A x \in Words, m \in Nat : Low(x * m) \in Words
  <2>1. \A x \in Words, m \in Nat : x * m \in Nat
    BY Powers DEF Words
  <2> QED
    BY <2>1, LowIsAWord
<1>4. A \in Words
  BY <1>1, <1>2, <1>3
<1> HIDE DEF A
<1>5. B \in Words
  BY <1>1, <1>2, <1>3, <1>4
<1> HIDE DEF B
<1>6. XorOf[B][B \div 2 ^ Mix3] \in Words
  BY <1>1, <1>2, <1>5
<1> QED
  BY <1>6 DEF Mixed, A, B

\* SplitMix64 gives different counters different words: each of its five steps
\* can be undone.
LEMMA MixedInjective ==
  ASSUME NEW x \in Words, NEW y \in Words, Mixed(x) = Mixed(y)
  PROVE  x = y
<1> DEFINE A(z) == Low(XorOf[z][z \div 2 ^ Mix1] * Mul1)
           B(a) == Low(XorOf[a][a \div 2 ^ Mix2] * Mul2)
<1>1. /\ Mix1 \in 1 .. Bits - 1 /\ Mix2 \in 1 .. Bits - 1 /\ Mix3 \in 1 .. Bits - 1
      /\ Mul1 \in Nat /\ Mul1 % 2 = 1 /\ Mul2 \in Nat /\ Mul2 % 2 = 1
  BY RngAssumption, Powers DEF Words
<1>2. \A m \in 1 .. Bits - 1 : \A z \in Words : XorOf[z][z \div 2 ^ m] \in Words
  <2>1. \A m \in 1 .. Bits - 1 : m \in 0 .. Bits
    BY Powers
  <2> QED
    BY <2>1, Halves, XorIsAWord
<1>3. ASSUME NEW z \in Words PROVE A(z) \in Words /\ B(z) \in Words
  <2>1. XorOf[z][z \div 2 ^ Mix1] \in Words /\ XorOf[z][z \div 2 ^ Mix2] \in Words
    BY <1>1, <1>2
  <2>2. XorOf[z][z \div 2 ^ Mix1] * Mul1 \in Nat /\ XorOf[z][z \div 2 ^ Mix2] * Mul2 \in Nat
    <3>1. \A u \in Words, m \in Nat : u * m \in Nat
      BY Powers DEF Words
    <3> QED
      BY <1>1, <2>1, <3>1
  <2> QED
    BY <2>2, LowIsAWord
<1>4. Mixed(x) = XorOf[B(A(x))][B(A(x)) \div 2 ^ Mix3] /\ Mixed(y) = XorOf[B(A(y))][B(A(y)) \div 2 ^ Mix3]
  BY DEF Mixed
<1>5. A(x) \in Words /\ A(y) \in Words /\ B(A(x)) \in Words /\ B(A(y)) \in Words
  <2>1. A(x) \in Words /\ A(y) \in Words
    BY <1>3
  <2> HIDE DEF A
  <2> QED
    BY <1>3, <2>1
<1>6. B(A(x)) = B(A(y))
  <2> HIDE DEF A, B
  <2> QED
    BY <1>1, <1>4, <1>5, ShiftInjective
<1>7. A(x) = A(y)
  <2> HIDE DEF A
  <2>1. XorOf[A(x)][A(x) \div 2 ^ Mix2] = XorOf[A(y)][A(y) \div 2 ^ Mix2]
    BY <1>1, <1>2, <1>5, <1>6, MulInjective
  <2> QED
    BY <1>1, <1>5, <2>1, ShiftInjective
<1>8. XorOf[x][x \div 2 ^ Mix1] = XorOf[y][y \div 2 ^ Mix1]
  BY <1>1, <1>2, <1>7, MulInjective
<1> QED
  BY <1>1, <1>8, ShiftInjective

\* SeedRng keeps the seed in its first word.  The state it avoids cannot occur:
\* of four different counters at most one is mixed to 0.
LEMMA SeedRngInjective ==
  ASSUME NEW x \in Words, NEW y \in Words, SeedRng(x) = SeedRng(y)
  PROVE  x = y
<1> DEFINE s(z) == [k \in 1 .. 4 |-> Mixed(Low(z + k * Gamma))]
<1>1. Gamma \in Nat /\ Gamma \in Words /\ Gamma % 2 = 1 /\ Gamma # 0 /\ x \in Nat /\ y \in Nat
      /\ 0 \in Words
  BY RngAssumption, Powers DEF Words
<1>2. ASSUME NEW z \in Words PROVE SeedRng(z)[1] = Mixed(Low(z + Gamma))
  <2>0. z \in Nat
    BY Powers DEF Words
  <2>1. s(z)[1] = Mixed(Low(z + 1 * Gamma)) /\ s(z)[2] = Mixed(Low(z + 2 * Gamma))
    OBVIOUS
  <2>2. z + 1 * Gamma = z + Gamma /\ z + 2 * Gamma = (z + Gamma) + Gamma
        /\ z + Gamma \in Nat /\ (z + Gamma) + Gamma \in Nat /\ 0 + (z + Gamma) = z + Gamma
    BY <1>1, <2>0
  <2>3. s(z)[1] # 0 \/ s(z)[2] # 0
    <3> SUFFICES ASSUME s(z)[1] = 0, s(z)[2] = 0 PROVE FALSE
      OBVIOUS
    <3>1. Low(z + Gamma) = Low((z + Gamma) + Gamma)
      BY <2>1, <2>2, LowIsAWord, MixedInjective
    <3>2. 0 + (z + Gamma) = z + Gamma /\ Gamma + (z + Gamma) = (z + Gamma) + Gamma
      BY <1>1, <2>0
    <3>3. Low(0 + (z + Gamma)) = Low(Gamma + (z + Gamma))
      BY <3>1, <3>2
    <3> QED
      BY <1>1, <2>2, <3>3, AddInjective
  <2>4. SeedRng(z) = s(z)
    BY <2>3 DEF SeedRng
  <2> QED
    BY <2>1, <2>2, <2>4
<1>3. Mixed(Low(x + Gamma)) = Mixed(Low(y + Gamma))
  BY <1>2
<1>4. x + Gamma \in Nat /\ y + Gamma \in Nat
  BY <1>1
<1>5. Low(x + Gamma) = Low(y + Gamma)
  BY <1>3, <1>4, LowIsAWord, MixedInjective
<1> QED
  BY <1>1, <1>5, AddInjective

\* newWorld gives different indices different seeds.
LEMMA SeedOfInjective ==
  ASSUME NEW i \in Words, NEW j \in Words, cfg.seed \in Words, SeedOf(i) = SeedOf(j)
  PROVE  i = j
<1> DEFINE t(k) == Low(k * Gamma + Salt)
           u(k) == XorOf[cfg.seed][t(k)]
<1>1. Gamma \in Nat /\ Gamma % 2 = 1 /\ Salt \in Nat /\ i \in Nat /\ j \in Nat
  BY RngAssumption, SetupAssumption, Powers DEF Words
<1>2. i * Gamma \in Nat /\ j * Gamma \in Nat /\ i * Gamma + Salt \in Nat /\ j * Gamma + Salt \in Nat
  BY <1>1
<1>3. t(i) \in Words /\ t(j) \in Words
  BY <1>2, LowIsAWord
<1>4. u(i) \in Words /\ u(j) \in Words
  <2> HIDE DEF t
  <2> QED
    BY <1>3, XorIsAWord
<1>5. Mixed(Low(u(i) + Gamma)) = Mixed(Low(u(j) + Gamma))
  BY DEF SeedOf, SplitMix64
<1>6. u(i) = u(j)
  <2> HIDE DEF u
  <2>1. u(i) + Gamma \in Nat /\ u(j) + Gamma \in Nat
    BY <1>1, <1>4, Powers DEF Words
  <2>2. Low(u(i) + Gamma) = Low(u(j) + Gamma)
    BY <1>5, <2>1, LowIsAWord, MixedInjective
  <2> QED
    BY <1>1, <1>4, <2>2, AddInjective
<1>7. t(i) = t(j)
  <2> HIDE DEF t
  <2>1. \A c \in Words : XorOf[cfg.seed][XorOf[cfg.seed][c]] = c
    BY XorUndone
  <2>2. XorOf[cfg.seed][XorOf[cfg.seed][t(i)]] = t(i)
        /\ XorOf[cfg.seed][XorOf[cfg.seed][t(j)]] = t(j)
    BY <1>3, <2>1
  <2> QED
    BY <1>6, <2>2
<1>8. Low(i * Gamma) = Low(j * Gamma)
  <2>1. PICK a \in Nat : a = i * Gamma
    BY <1>2
  <2>2. PICK b \in Nat : b = j * Gamma
    BY <1>2
  <2>3. Low(a) \in Words /\ Low(b) \in Words /\ Low(a) \in Nat /\ Low(b) \in Nat
    BY LowIsAWord, Powers DEF Words
  <2>4. Low(Low(a) + Salt) = Low(a + Salt) /\ Low(Low(b) + Salt) = Low(b + Salt)
    BY <1>1, LowAdds
  <2>5. Low(Low(a) + Salt) = Low(Low(b) + Salt)
    BY <1>7, <2>1, <2>2, <2>4
  <2>6. Low(a) = Low(b)
    BY <1>1, <2>3, <2>5, AddInjective
  <2> QED
    BY <2>1, <2>2, <2>6
<1> QED
  BY <1>1, <1>8, MulInjective

\* Whatever the seed, two ants' generators differ from the start.
LEMMA StreamsDiffer ==
  ASSUME NEW i \in Words, NEW j \in Words, cfg.seed \in Words, i # j
  PROVE  SeedRng(SeedOf(i)) # SeedRng(SeedOf(j))
<1>1. \A k \in Words : SeedOf(k) \in Words
  <2> SUFFICES ASSUME NEW k \in Words PROVE SeedOf(k) \in Words
    OBVIOUS
  <2> DEFINE u == XorOf[cfg.seed][Low(k * Gamma + Salt)]
  <2>1. Gamma \in Nat /\ Salt \in Nat /\ k \in Nat
    BY RngAssumption, SetupAssumption, Powers DEF Words
  <2>2. k * Gamma \in Nat /\ k * Gamma + Salt \in Nat
    BY <2>1
  <2>3. u \in Words
    BY <2>2, LowIsAWord, XorIsAWord
  <2> HIDE DEF u
  <2>4. u + Gamma \in Nat
    BY <2>1, <2>3, Powers DEF Words
  <2>5. Mixed(Low(u + Gamma)) \in Words
    BY <2>4, LowIsAWord, MixedIsAWord
  <2> QED
    BY <2>5 DEF SeedOf, SplitMix64, u
<1> QED
  BY <1>1, SeedRngInjective, SeedOfInjective
-----------------------------------------------------------------------------
\* Half a word holds the bound 8 of the first call.
LEMMA HalfIsANumber == HalfSize \in Nat /\ HalfSize > 8
<1>1. Bits \div 2 \in 0 .. Bits
  BY RngAssumption
<1>2. HalfSize \in Nat
  BY <1>1, BitsAssumption DEF HalfSize
<1> QED
  BY <1>2, SetupAssumption

\* An interval of n * q products below contains q multiples of n.
LEMMA Multiples ==
  ASSUME NEW H \in Nat, NEW n \in Nat \ {0}, NEW q \in Nat, NEW l \in Nat, l + n * q <= H * n
  PROVE  Cardinality({x \in 0 .. H - 1 : l <= x * n /\ x * n < l + n * q}) = q
<1> DEFINE S == {x \in 0 .. H - 1 : l <= x * n /\ x * n < l + n * q}
           c == (l + n - 1) \div n
<1>1. PICK r \in 0 .. n - 1 : c \in Nat /\ l + n - 1 = n * c + r
  <2> DEFINE m == l + n - 1
  <2>1. m \in Nat
    OBVIOUS
  <2> HIDE DEF m
  <2>2. m \div n \in Nat /\ m % n \in 0 .. n - 1 /\ m = n * (m \div n) + (m % n)
    BY <2>1
  <2> QED
    BY <2>2 DEF m
<1> HIDE DEF c
<1>2. \A x \in Nat : l <= x * n <=> c <= x
  <2> SUFFICES ASSUME NEW x \in Nat PROVE l <= x * n <=> c <= x
    OBVIOUS
  <2>1. x * n \in Nat /\ n * c \in Nat
    BY <1>1
  <2>2. c <= x => n * c <= x * n
    BY <1>1
  <2>3. x + 1 <= c => x * n + n <= n * c
    <3>1. x + 1 <= c => n * (x + 1) <= n * c
      BY <1>1
    <3>2. n * (x + 1) = x * n + n
      OBVIOUS
    <3> QED
      BY <3>1, <3>2
  <2> QED
    BY <1>1, <2>1, <2>2, <2>3
<1>3. \A x \in Nat : x * n < l + n * q <=> x < c + q
  <2> SUFFICES ASSUME NEW x \in Nat PROVE x * n < l + n * q <=> x < c + q
    OBVIOUS
  <2>1. n * q \in Nat /\ x * n \in Nat
    OBVIOUS
  <2>2. CASE x < q
    <3>1. x * n + n <= n * q
      <4>1. n * (x + 1) <= n * q /\ n * (x + 1) = x * n + n
        BY <2>2
      <4> QED
        BY <4>1
    <3> QED
      BY <1>1, <2>1, <2>2, <3>1
  <2>3. CASE q <= x
    <3>1. PICK y \in Nat : x = y + q
      <4>1. x - q \in Nat /\ x = (x - q) + q
        BY <2>3
      <4> QED
        BY <4>1
    <3>2. x * n = y * n + n * q /\ y * n \in Nat
      BY <3>1
    <3>3. l <= y * n <=> c <= y
      BY <1>2
    <3> QED
      BY <1>1, <2>1, <3>1, <3>2, <3>3
  <2> QED
    BY <2>2, <2>3
<1>4. c + q <= H
  <2> SUFFICES ASSUME H < c + q PROVE FALSE
    BY <1>1
  <2>1. H * n < l + n * q
    BY <1>3
  <2> QED
    BY <2>1
<1>5. S = c .. (c + q - 1)
  <2>1. \A x : x \in 0 .. H - 1 => x \in Nat
    OBVIOUS
  <2>2. \A x : x \in c .. (c + q - 1) => x \in 0 .. H - 1
    BY <1>1, <1>4
  <2>3. \A x \in Nat : x \in c .. (c + q - 1) <=> c <= x /\ x < c + q
    BY <1>1
  <2> QED
    BY <1>2, <1>3, <2>1, <2>2, <2>3
<1> HIDE DEF S
<1>6. c \in Int /\ c + q - 1 \in Int
  BY <1>1
<1>7. Cardinality(c .. (c + q - 1)) = q
  <2>1. Cardinality(c .. (c + q - 1)) = IF c > c + q - 1 THEN 0 ELSE (c + q - 1) - c + 1
    BY <1>6, FS_Interval
  <2> QED
    BY <1>1, <2>1
<1> QED
  BY <1>5, <1>7 DEF S

\* Intn's threshold rejects as many raw words as its bound leaves over.
LEMMA IntnCounts ==
  ASSUME NEW n \in 1 .. HalfSize, NEW v \in 0 .. n - 1
  PROVE  Cardinality({x \in Raw : ~Rejected(x, n) /\ Value(x, n) = v}) = HalfSize \div n
<1> DEFINE H == HalfSize
           q == H \div n
           t == H % n
           l == H * v + t
<1>1. H \in Nat /\ H > 8 /\ n \in Nat \ {0} /\ v \in Nat
  BY HalfIsANumber
<1> HIDE DEF H
<1>2. q \in Nat /\ t \in 0 .. n - 1 /\ H = n * q + t
  BY <1>1
<1>3. n <= H
  BY DEF H
<1>4. Threshold(n) = t
  <2>1. (H - n) % H = H - n
    BY <1>1, <1>3
  <2>2. q >= 1
    <3> HIDE DEF q, t
    <3>1. q = 0 => n * q = 0
      BY <1>1
    <3> QED
      BY <1>1, <1>2, <1>3, <3>1
  <2>3. q - 1 \in Nat /\ H - n \in Nat /\ H - n = n * (q - 1) + t
    <3> HIDE DEF q, t
    <3>1. n * (q - 1) = n * q - n
      BY <1>1, <1>2
    <3> QED
      BY <1>1, <1>2, <1>3, <2>2, <3>1
  <2>4. (H - n) % n = t
    <3> HIDE DEF q, t
    <3> QED
      BY <1>1, <1>2, <2>3, Quotient
  <2> QED
    BY <2>1, <2>4 DEF Threshold, H
<1> HIDE DEF q, t
<1>5. l \in Nat /\ l + n * q = H * v + H /\ H * v \in Nat
  BY <1>1, <1>2
<1>6. H * v + H <= H * n
  <2>1. H * (v + 1) <= H * n /\ H * (v + 1) = H * v + H
    BY <1>1
  <2> QED
    BY <2>1
<1> HIDE DEF l
<1>7. ASSUME NEW x \in 0 .. H - 1
      PROVE  ~Rejected(x, n) /\ Value(x, n) = v <=> l <= x * n /\ x * n < l + n * q
  <2> DEFINE p == x * n
             hi == p \div H
             lo == p % H
  <2>1. p \in Nat
    BY <1>1
  <2> HIDE DEF p
  <2>2. hi \in Nat /\ lo \in 0 .. H - 1 /\ p = H * hi + lo
    BY <1>1, <2>1
  <2> HIDE DEF hi, lo
  <2>3. Rejected(x, n) <=> lo < t
    <3>1. (x * n) % HalfSize = lo
      BY DEF lo, p, H
    <3> QED
      BY <1>1, <1>2, <1>4, <2>2, <3>1 DEF Rejected
  <2>4. Value(x, n) = hi
    BY DEF Value, hi, p, H
  <2>5. hi = v => (lo >= t <=> l <= p /\ p < l + n * q)
    BY <1>1, <1>2, <1>5, <2>2 DEF l
  <2>6. hi < v => p < H * v
    <3>1. hi < v => H * (hi + 1) <= H * v /\ H * (hi + 1) = H * hi + H
      BY <1>1, <2>2
    <3> QED
      BY <1>1, <1>5, <2>2, <3>1
  <2>7. hi > v => p >= H * v + H
    <3>1. hi > v => H * (v + 1) <= H * hi /\ H * (v + 1) = H * v + H
      BY <1>1, <2>2
    <3> QED
      BY <1>1, <1>5, <2>2, <3>1
  <2>8. l <= p /\ p < l + n * q => hi = v
    BY <1>1, <1>2, <1>5, <2>1, <2>2, <2>6, <2>7 DEF l
  <2>9. ~Rejected(x, n) /\ Value(x, n) = v <=> lo >= t /\ hi = v
    BY <1>2, <2>2, <2>3, <2>4
  <2>10. ~Rejected(x, n) /\ Value(x, n) = v <=> l <= p /\ p < l + n * q
    BY <2>5, <2>8, <2>9
  <2> QED
    BY <2>10 DEF p
<1>8. {x \in Raw : ~Rejected(x, n) /\ Value(x, n) = v}
        = {x \in 0 .. H - 1 : l <= x * n /\ x * n < l + n * q}
  <2>1. Raw = 0 .. H - 1
    BY DEF Raw, H
  <2> QED
    BY <1>7, <2>1
<1>9. Cardinality({x \in 0 .. H - 1 : l <= x * n /\ x * n < l + n * q}) = q
  <2>1. l + n * q <= H * n
    BY <1>5, <1>6
  <2> QED
    BY <1>1, <1>2, <1>5, <2>1, Multiples
<1> QED
  BY <1>8, <1>9 DEF q, H
-----------------------------------------------------------------------------
\* The numbers of a configuration that become words are words, whatever the
\* overrides.
CarriedWords ==
  step \in {"loaded", "overridden", "valid", "within", "admitted"} =>
    cfg.seed \in Words /\ cfg.random[2] \in Raw

Ants == 0 .. cfg.ants - 1

\* An ant that has not begun its first call still has the generator newWorld
\* gave it; a call that was begun asks for 8, 3 or the denominator of the
\* exploration rate.
AtWork ==
  /\ Admitted
  /\ DOMAIN rng = Ants
  /\ drawn \in [Ants -> Nat]
  /\ asked # None => asked.ant \in Ants /\ asked.n \in 1 .. HalfSize
  /\ \A i \in Ants :
       drawn[i] = 0 /\ (asked = None \/ asked.ant # i) => rng[i] = SeedRng(SeedOf(i))

SetupInv ==
  /\ AdmissionInv /\ CarriedWords
  /\ AtWork \/ (rng = <<>> /\ drawn = <<>> /\ asked = None)

\* Every step of a request keeps its words words.
LEMMA CarriedNext ==
  ASSUME AdmissionInv, CarriedWords, [AdmissionNext]_admissionVars
  PROVE  CarriedWords'
<1>1. CASE Load
  <2>1. req.doc # None => req.doc.seed \in Words /\ req.doc.random[2] \in Raw
    BY SetupAssumption DEF AdmissionInv
  <2> QED
    BY <1>1, <2>1 DEF Load, Go, CarriedWords
<1>2. CASE Override
  <2>1. cfg \in Configs /\ req \in Asks /\ req.seed \in {None} \cup Words
        /\ cfg.seed \in Words /\ cfg.random[2] \in Raw
    BY <1>2, AdmissionAssumption, SetupAssumption DEF Override, AdmissionInv, CarriedWords
  <2>2. Given(req.seed, cfg.seed) \in Words /\ Flag(req.seed, cfg.seed) \in Words
    BY <2>1 DEF Given, Flag
  <2>3. ASSUME NEW c \in {RunConfig, BenchConfig, SimConfig}
        PROVE  c.seed \in Words /\ c.random = cfg.random
    <3>1. /\ RunConfig.seed = Given(req.seed, cfg.seed) /\ RunConfig.random = cfg.random
          /\ BenchConfig.seed = Given(req.seed, cfg.seed) /\ BenchConfig.random = cfg.random
          /\ SimConfig.seed = Flag(req.seed, cfg.seed) /\ SimConfig.random = cfg.random
      BY <2>1 DEF RunConfig, BenchConfig, SimConfig, Configs
    <3> QED
      BY <2>2, <3>1
  <2>4. cfg' \in {RunConfig, BenchConfig, SimConfig}
    BY <1>2, <2>1 DEF Override, Asks
  <2> QED
    BY <2>1, <2>3, <2>4 DEF CarriedWords
<1>3. CASE Validate \/ CheckLimits \/ Admit \/ Reject
  BY <1>3 DEF Validate, CheckLimits, Admit, Reject, Go, CarriedWords
<1>4. CASE UNCHANGED admissionVars
  BY <1>4 DEF admissionVars, CarriedWords
<1> QED
  BY <1>1, <1>2, <1>3, <1>4 DEF AdmissionNext

\* The colony of an admitted configuration, and the bounds its ants ask for.
LEMMA AdmittedColony ==
  ASSUME AdmissionInv, CarriedWords, Admitted
  PROVE  /\ cfg.ants \in Nat \ {0} /\ Ants \subseteq Words
         /\ cfg.seed \in Words
         /\ \A k \in Nat : Bound(k) \in 1 .. HalfSize
<1>1. cfg \in Configs /\ Valid(cfg) /\ cfg.seed \in Words /\ cfg.random[2] \in Raw
  BY DEF AdmissionInv, CarriedWords, Admitted
<1>2. cfg.ants \in Ints /\ cfg.ants > 0 /\ cfg.random[2] > 0
  BY <1>1 DEF Configs, Valid, RatioOK
<1>3. cfg.ants \in Nat \ {0} /\ cfg.ants < WordSize
  BY <1>2, AdmissionAssumption, SetupAssumption, Powers DEF Ints
<1>4. Ants \subseteq Words
  BY <1>3, Powers DEF Ants, Words
<1>5. cfg.random[2] \in 1 .. HalfSize
  BY <1>1, <1>2, HalfIsANumber DEF Raw
<1>6. \A k \in Nat : Bound(k) \in 1 .. HalfSize
  BY <1>5, HalfIsANumber DEF Bound
<1> QED
  BY <1>1, <1>3, <1>4, <1>6

\* No ant has a generator before the world is built.
LEMMA SetupInvInit == Init => SetupInv
BY AdmissionInvInit DEF Init, SetupInv, CarriedWords, AdmissionInit

\* Every step, of the request or of an ant, keeps the invariant.
LEMMA SetupInvNext == SetupInv /\ [Next]_vars => SetupInv'
<1> SUFFICES ASSUME SetupInv, [Next]_vars PROVE SetupInv'
  OBVIOUS
<1> USE DEF SetupInv
<1>1. ASSUME UNCHANGED admissionVars
      PROVE  AdmissionInv' /\ CarriedWords' /\ Admitted' = Admitted /\ Ants' = Ants
             /\ \A i : SeedOf(i)' = SeedOf(i)
  BY <1>1 DEF admissionVars, AdmissionInv, CarriedWords, Admitted, Ants, SeedOf
<1>2. CASE (AdmissionNext /\ UNCHANGED genVars) \/ UNCHANGED vars
  <2>1. [AdmissionNext]_admissionVars /\ UNCHANGED <<rng, drawn, asked>>
    BY <1>2 DEF genVars, vars
  <2>2. AdmissionInv' /\ CarriedWords'
    BY <2>1, AdmissionInvNext, CarriedNext
  <2>3. ASSUME AtWork PROVE AtWork'
    <3>1. UNCHANGED admissionVars
      BY <2>1, <2>3 DEF AtWork, Admitted, AdmissionNext, Load, Override, Validate, CheckLimits,
                        Admit, Reject
    <3> QED
      BY <1>1, <2>1, <2>3, <3>1 DEF AtWork
  <2> QED
    BY <2>1, <2>2, <2>3
<1>3. CASE NewWorld
  <2>1. Admitted /\ UNCHANGED <<admissionVars, asked>>
        /\ rng' = [i \in Ants |-> SeedRng(SeedOf(i))] /\ drawn' = [i \in Ants |-> 0]
    BY <1>3 DEF NewWorld, Ants
  <2>2. AtWork \/ asked = None
    OBVIOUS
  <2>3. asked' # None => asked'.ant \in Ants /\ asked'.n \in 1 .. HalfSize
    BY <2>1, <2>2 DEF AtWork
  <2> QED
    BY <1>1, <2>1, <2>3 DEF AtWork
<1>4. CASE \E i \in DOMAIN rng : Call(i)
  <2>1. PICK i \in DOMAIN rng : Call(i)
    BY <1>4
  <2>2. AtWork
    BY <2>1
  <2>3. /\ asked = None /\ asked' = [ant |-> i, n |-> Bound(drawn[i])]
        /\ UNCHANGED <<admissionVars, rng, drawn>>
    BY <2>1 DEF Call
  <2>4. i \in Ants /\ drawn[i] \in Nat
    BY <2>2 DEF AtWork
  <2>5. Bound(drawn[i]) \in 1 .. HalfSize
    BY <2>2, <2>4, AdmittedColony DEF AtWork
  <2> QED
    BY <1>1, <2>2, <2>3, <2>4, <2>5 DEF AtWork
<1>5. CASE Draw
  <2>1. AtWork
    BY <1>5 DEF Draw
  <2> DEFINE a == asked.ant
  <2>2. /\ asked # None /\ a \in Ants /\ UNCHANGED admissionVars
        /\ rng' = [rng EXCEPT ![a] = Advanced(@)]
    BY <1>5, <2>1 DEF Draw, AtWork
  <2>3. \/ UNCHANGED <<drawn, asked>>
        \/ drawn' = [drawn EXCEPT ![a] = @ + 1] /\ asked' = None
    BY <1>5 DEF Draw
  <2>4. DOMAIN rng' = Ants /\ drawn' \in [Ants -> Nat]
    BY <2>1, <2>2, <2>3 DEF AtWork
  <2>5. asked' # None => asked'.ant \in Ants /\ asked'.n \in 1 .. HalfSize
    BY <2>1, <2>3 DEF AtWork
  <2>6. ASSUME NEW i \in Ants, drawn'[i] = 0, asked' = None \/ asked'.ant # i
        PROVE  rng'[i] = SeedRng(SeedOf(i))
    <3>1. i # a
      BY <2>1, <2>2, <2>3, <2>6 DEF AtWork
    <3>2. rng'[i] = rng[i] /\ drawn'[i] = drawn[i]
      BY <2>1, <2>2, <2>3, <3>1 DEF AtWork
    <3> QED
      BY <2>1, <2>6, <3>1, <3>2 DEF AtWork
  <2> QED
    BY <1>1, <2>1, <2>2, <2>4, <2>5, <2>6 DEF AtWork
<1> QED
  BY <1>2, <1>3, <1>4, <1>5 DEF Next

\* Intn is uniform for every bound an ant asks for, however wide the words
\* (rng.go 57-74): the bounds are positive because Validate has looked at the
\* exploration rate after the overrides.
THEOREM DrawsAreUnbiased == Spec => []Unbiased
<1>1. SetupInv => Unbiased
  <2> SUFFICES ASSUME SetupInv, asked # None, NEW v \in 0 .. asked.n - 1
               PROVE  Cardinality({x \in Raw : ~Rejected(x, asked.n) /\ Value(x, asked.n) = v})
                        = HalfSize \div asked.n
    BY DEF Unbiased
  <2>1. asked.n \in 1 .. HalfSize
    BY DEF SetupInv, AtWork
  <2> QED
    BY <2>1, IntnCounts
<1> QED
  BY <1>1, SetupInvInit, SetupInvNext, PTL DEF Spec

\* No two ants of a colony start from the same generator (naive.go 155-159),
\* for every seed, every admitted number of ants and every odd multiplier.
THEOREM StreamsAreOwn == Spec => []OwnStreams
<1>1. SetupInv => OwnStreams
  <2> SUFFICES ASSUME SetupInv, NEW i \in DOMAIN rng, NEW j \in DOMAIN rng,
                      i # j, drawn[i] = 0, drawn[j] = 0, asked = None
               PROVE  rng[i] # rng[j]
    BY DEF OwnStreams
  <2>1. AtWork
    BY DEF SetupInv
  <2>2. i \in Ants /\ j \in Ants
    BY <2>1 DEF AtWork
  <2>3. rng[i] = SeedRng(SeedOf(i)) /\ rng[j] = SeedRng(SeedOf(j))
    BY <2>1, <2>2 DEF AtWork
  <2>4. Ants \subseteq Words /\ cfg.seed \in Words
    BY <2>1, AdmittedColony DEF SetupInv, AtWork
  <2> QED
    BY <2>2, <2>3, <2>4, StreamsDiffer
<1> QED
  BY <1>1, SetupInvInit, SetupInvNext, PTL DEF Spec

(***************************************************************************)
(* Transport: for every number of requests, compressors and parts.  The    *)
(* invariant follows a body from the handler through the compressor to the *)
(* wire: what is there and what the compressor keeps is, put together,     *)
(* what the handler wrote.                                                 *)
(***************************************************************************)
\* A header is written once, by a request that is being served, and only a
\* compressed response has an encoding and no length.
HeaderInv ==
  \A q \in Exchanges :
    /\ encoded[q] = compressing[q]
    /\ length[q] => ~encoded[q]
    /\ compressing[q] => wroteHeader[q] /\ gz[q] # Nobody
    /\ wroteHeader[q] => at[q] # "new"
    /\ gz[q] = Nobody => at[q] \in {"new", "handler", "answered"}
    /\ at[q] = "new" => gz[q] = Nobody
    /\ at[q] # "answered" /\ ~wroteHeader[q] => written[q] = 0
    /\ call[q].path = "stream" => gz[q] = Nobody /\ code[q] \in {0, 200, 401}

\* Nothing was written yet, and the compressor is fresh.
Fresh(q) == gz[q] # Nobody => ~failed[gz[q]] /\ kept[gz[q]] = <<>>

\* What is on the wire and in the compressor is what the handler wrote.
Follows(q) == ~failed[gz[q]] /\ body[q] \o kept[gz[q]] = First(q, written[q], TRUE)

\* Where q's body is, from the first part to the last step of the deferred function.
Intact(q) ==
  /\ ~compressing[q] => body[q] = First(q, written[q], FALSE)
  /\ at[q] = "handler" /\ ~wroteHeader[q] => Fresh(q)
  /\ compressing[q] /\ at[q] \in {"handler", "close"} => Follows(q)
  /\ compressing[q] /\ at[q] \in {"put", "answered"} => body[q] = Whole(q, TRUE)

BodyInv == \A q \in Exchanges : ~gone[q] => Intact(q)

(***************************************************************************)
(* Sequences of parts.                                                     *)
(***************************************************************************)
LEMMA PartsTyped ==
  ASSUME NEW q \in Exchanges, NEW n \in 0 .. MaxParts, NEW zip \in BOOLEAN
  PROVE  /\ Part(q, n, zip) \in Parts /\ First(q, n, zip) \in Seq(Parts)
         /\ <<Part(q, n, zip)>> \in Seq(Parts) /\ <<>> \in Seq(Parts)
<1>1. Part(q, n, zip) \in Parts
  BY DEF Part, Parts
<1>2. \A i \in 1 .. n : Part(q, i, zip) \in Parts
  BY TransportAssumption DEF Part, Parts
<1>3. First(q, n, zip) \in [1 .. n -> Parts]
  BY <1>2 DEF First
<1>4. First(q, n, zip) \in Seq(Parts)
  BY <1>3, TransportAssumption, SeqDef
<1> QED
  BY <1>1, <1>4

LEMMA FirstNone == ASSUME NEW q \in Exchanges, NEW zip \in BOOLEAN PROVE First(q, 0, zip) = <<>>
BY DEF First

LEMMA FirstNext ==
  ASSUME NEW q \in Exchanges, NEW n \in 0 .. MaxParts, n < MaxParts, NEW zip \in BOOLEAN
  PROVE  First(q, n, zip) \o <<Part(q, n + 1, zip)>> = First(q, n + 1, zip)
<1>1. MaxParts \in Nat /\ n \in Nat /\ n + 1 \in 0 .. MaxParts
  BY TransportAssumption
<1>2. /\ First(q, n, zip) \in Seq(Parts) /\ First(q, n + 1, zip) \in Seq(Parts)
      /\ <<Part(q, n + 1, zip)>> \in Seq(Parts)
  BY <1>1, PartsTyped
<1>3. Len(First(q, n, zip)) = n /\ Len(First(q, n + 1, zip)) = n + 1
  BY <1>1 DEF First
<1> DEFINE both == First(q, n, zip) \o <<Part(q, n + 1, zip)>>
<1>4. both \in Seq(Parts) /\ Len(both) = n + 1
  BY <1>1, <1>2, <1>3, ConcatProperties
<1>5. \A i \in 1 .. n + 1 : both[i] = First(q, n + 1, zip)[i]
  <2> SUFFICES ASSUME NEW i \in 1 .. n + 1 PROVE both[i] = First(q, n + 1, zip)[i]
    OBVIOUS
  <2>1. both[i] = IF i <= n THEN First(q, n, zip)[i] ELSE <<Part(q, n + 1, zip)>>[i - n]
    BY <1>1, <1>2, <1>3, ConcatProperties
  <2>2. CASE i <= n
    BY <1>1, <2>1, <2>2 DEF First
  <2>3. CASE i = n + 1
    BY <1>1, <2>1, <2>3 DEF First
  <2>4. i <= n \/ i = n + 1
    BY <1>1
  <2> QED
    BY <2>2, <2>3, <2>4
<1> HIDE DEF both
<1>6. both = First(q, n + 1, zip)
  BY <1>1, <1>2, <1>3, <1>4, <1>5, SeqEqual
<1> QED
  BY <1>6 DEF both

(***************************************************************************)
(* What the compressor does with what it is given.                         *)
(***************************************************************************)
LEMMA SqueezeTyped ==
  ASSUME TransportTypeOK, NEW k \in Compressors, target[k] \in Exchanges,
         NEW parts \in Seq(Parts), NEW closes \in BOOLEAN, Squeeze(k, parts, closes)
  PROVE  /\ body' \in [Exchanges -> Seq(Parts)] /\ kept' \in [Compressors -> Seq(Parts)]
         /\ failed' \in [Compressors -> BOOLEAN]
<1> DEFINE q == target[k]
           all == kept[k] \o parts
<1>1. all \in Seq(Parts) /\ body[q] \in Seq(Parts) /\ <<>> \in Seq(Parts)
  BY ConcatProperties DEF TransportTypeOK
<1>2. Received(q, all) \in Seq(Parts)
  BY <1>1, ConcatProperties DEF Received
<1> HIDE DEF all
<1>3. \/ failed[k] /\ UNCHANGED <<body, kept, failed>>
      \/ ~failed[k] /\ ~closes /\ kept' = [kept EXCEPT ![k] = all] /\ UNCHANGED <<body, failed>>
      \/ /\ body' = [body EXCEPT ![q] = Received(q, all)]
         /\ kept' = [kept EXCEPT ![k] = <<>>]
         /\ \E broken \in {FALSE, gone[q]} : failed' = [failed EXCEPT ![k] = broken]
  BY DEF Squeeze, all
<1>4. gone[q] \in BOOLEAN
  BY DEF TransportTypeOK
<1> QED
  <2>1. CASE UNCHANGED <<body, kept, failed>>
    BY <2>1 DEF TransportTypeOK
  <2>2. CASE kept' = [kept EXCEPT ![k] = all] /\ UNCHANGED <<body, failed>>
    BY <2>2, <1>1 DEF TransportTypeOK
  <2>3. CASE /\ body' = [body EXCEPT ![q] = Received(q, all)]
             /\ kept' = [kept EXCEPT ![k] = <<>>]
             /\ \E broken \in {FALSE, gone[q]} : failed' = [failed EXCEPT ![k] = broken]
    <3>1. PICK broken \in {FALSE, gone[q]} : failed' = [failed EXCEPT ![k] = broken]
      BY <2>3
    <3>2. broken \in BOOLEAN
      BY <1>4
    <3>3. failed' \in [Compressors -> BOOLEAN]
      BY <3>1, <3>2 DEF TransportTypeOK
    <3>4. kept' \in [Compressors -> Seq(Parts)]
      BY <1>1, <2>3 DEF TransportTypeOK
    <3>5. body' \in [Exchanges -> Seq(Parts)]
      BY <1>2, <2>3 DEF TransportTypeOK
    <3> QED
      BY <3>3, <3>4, <3>5
  <2> QED
    BY <1>3, <2>1, <2>2, <2>3

LEMMA PartsAssociative ==
  ASSUME NEW a \in Seq(Parts), NEW b \in Seq(Parts), NEW c \in Seq(Parts)
  PROVE  a \o (b \o c) = (a \o b) \o c
BY ConcatAssociative, SMTT(20)

LEMMA SqueezeKeeps ==
  ASSUME TransportTypeOK, NEW k \in Compressors, target[k] \in Exchanges,
         NEW parts \in Seq(Parts), NEW closes \in BOOLEAN, Squeeze(k, parts, closes)
  PROVE  /\ \A p \in Exchanges : p # target[k] => body'[p] = body[p]
         /\ \A l \in Compressors : l # k => kept'[l] = kept[l] /\ failed'[l] = failed[l]
         /\ ~gone[target[k]] /\ ~failed[k] =>
              /\ ~failed'[k]
              /\ body'[target[k]] \o kept'[k] = (body[target[k]] \o kept[k]) \o parts
              /\ closes => kept'[k] = <<>>
<1> DEFINE q == target[k]
           all == kept[k] \o parts
<1>0. body[q] \in Seq(Parts) /\ kept[k] \in Seq(Parts) /\ gone[q] \in BOOLEAN
  BY DEF TransportTypeOK
<1>1. all \in Seq(Parts)
  BY <1>0, ConcatProperties
<1>2. body[q] \o all = (body[q] \o kept[k]) \o parts
  BY <1>0, PartsAssociative
<1>3. (body[q] \o all) \o <<>> = body[q] \o all
  BY <1>0, <1>1, ConcatProperties, ConcatEmptySeq
<1> HIDE DEF all
<1>4. CASE failed[k] /\ UNCHANGED <<body, kept, failed>>
  BY <1>4
<1>5. CASE ~failed[k] /\ ~closes /\ kept' = [kept EXCEPT ![k] = all] /\ UNCHANGED <<body, failed>>
  <2>1. kept'[k] = all /\ \A l \in Compressors : l # k => kept'[l] = kept[l]
    BY <1>5 DEF TransportTypeOK
  <2> QED
    BY <1>2, <1>5, <2>1
<1>6. CASE /\ body' = [body EXCEPT ![q] = Received(q, all)]
           /\ kept' = [kept EXCEPT ![k] = <<>>]
           /\ \E broken \in {FALSE, gone[q]} : failed' = [failed EXCEPT ![k] = broken]
  <2>1. ~gone[q] => body'[q] = body[q] \o all /\ ~failed'[k] /\ kept'[k] = <<>>
    <3>1. PICK broken \in {FALSE, gone[q]} : failed' = [failed EXCEPT ![k] = broken]
      BY <1>6
    <3>2. failed'[k] = broken /\ kept'[k] = <<>>
      BY <1>6, <3>1 DEF TransportTypeOK
    <3>3. ~gone[q] => body'[q] = body[q] \o all
      BY <1>6 DEF Received, TransportTypeOK
    <3>4. ~gone[q] => ~broken
      BY <1>0
    <3> QED
      BY <3>2, <3>3, <3>4
  <2>2. ~gone[q] => body'[q] \o kept'[k] = (body[q] \o kept[k]) \o parts
    BY <2>1, <1>2, <1>3
  <2>3. \A l \in Compressors : l # k => kept'[l] = kept[l] /\ failed'[l] = failed[l]
    BY <1>6 DEF TransportTypeOK
  <2>4. \A p \in Exchanges : p # q => body'[p] = body[p]
    BY <1>6 DEF TransportTypeOK
  <2> QED
    BY <2>1, <2>2, <2>3, <2>4
<1> QED
  BY <1>4, <1>5, <1>6 DEF Squeeze, all

(***************************************************************************)
(* Types, and who holds which compressor.                                  *)
(***************************************************************************)
LEMMA TypeInit == TransportInit => TransportTypeOK
<1>1. <<>> \in Seq(Parts)
  OBVIOUS
<1> QED
  BY <1>1, TransportAssumption DEF TransportInit, TransportTypeOK, Holders

LEMMA TypeNext == TransportTypeOK /\ HeaderInv /\ [TransportNext]_transportVars => TransportTypeOK'
<1> SUFFICES ASSUME TransportTypeOK, HeaderInv, [TransportNext]_transportVars PROVE TransportTypeOK'
  OBVIOUS
<1> USE DEF requestVars, responseVars, gzipVars
<1>1. ASSUME NEW q \in Exchanges, Unauthorized(q) PROVE TransportTypeOK'
  <2>0. 1 \in 0 .. MaxParts
    BY TransportAssumption
  <2>1. <<Part(q, 1, FALSE)>> \in Seq(Parts)
    BY <2>0, PartsTyped
  <2>2. body' \in [Exchanges -> Seq(Parts)]
    BY <1>1, <2>1 DEF Unauthorized, TransportTypeOK
  <2>3. Holders' = Holders
    BY <1>1 DEF Unauthorized, TransportTypeOK, Holders, HeaderInv
  <2> QED
    <3>1. at' \in [Exchanges -> {"new", "handler", "close", "put", "answered"}]
      BY <1>1 DEF Unauthorized, TransportTypeOK
    <3>2. code' \in [Exchanges -> {0, 200, 304, 401, 500}]
      BY <1>1 DEF Unauthorized, TransportTypeOK
    <3>3. written' \in [Exchanges -> 0 .. MaxParts]
      BY <1>1, <2>0 DEF Unauthorized, TransportTypeOK
    <3>4. UNCHANGED <<call, gz, wroteHeader, compressing, gone, encoded, length, pool, target, kept, failed>>
      BY <1>1 DEF Unauthorized
    <3>5. /\ \A p \in Holders' : gz'[p] \notin pool' /\ target'[gz'[p]] = p
          /\ \A p, r \in Holders' : gz'[p] = gz'[r] => p = r
      BY <2>3, <3>4 DEF TransportTypeOK
    <3> QED
      BY <2>2, <3>1, <3>2, <3>3, <3>4, <3>5 DEF TransportTypeOK
<1>2. ASSUME NEW q \in Exchanges, Pass(q) PROVE TransportTypeOK'
  <2>1. Holders' = Holders
    BY <1>2 DEF Pass, TransportTypeOK, Holders
  <2> QED
    BY <1>2, <2>1 DEF Pass, TransportTypeOK
<1>3. ASSUME NEW q \in Exchanges, Compress(q) PROVE TransportTypeOK'
  <2>1. PICK k \in pool : gz' = [gz EXCEPT ![q] = k] /\ pool' = pool \ {k} /\ Reset(k, q)
    BY <1>3 DEF Compress
  <2>2. k \in Compressors /\ <<>> \in Seq(Parts)
    BY DEF TransportTypeOK
  <2>3. Holders' \subseteq Holders \cup {q} /\ q \notin Holders
    BY <1>3, <2>1 DEF Compress, TransportTypeOK, Holders, HeaderInv
  <2>4. \A p \in Holders : p # q /\ gz[p] # k /\ gz'[p] = gz[p] /\ target'[gz[p]] = p
    BY <2>1, <2>2, <2>3 DEF Reset, TransportTypeOK, Holders
  <2>5. gz'[q] = k /\ target'[k] = q /\ k \notin pool'
    BY <2>1, <2>2 DEF Reset, TransportTypeOK
  <2>6. /\ \A p \in Holders' : gz'[p] \notin pool' /\ target'[gz'[p]] = p
        /\ \A p, r \in Holders' : gz'[p] = gz'[r] => p = r
    BY <2>1, <2>3, <2>4, <2>5 DEF TransportTypeOK
  <2>7. /\ target' \in [Compressors -> Exchanges \cup {Nobody}]
        /\ kept' \in [Compressors -> Seq(Parts)] /\ failed' \in [Compressors -> BOOLEAN]
    BY <2>1, <2>2 DEF Reset, TransportTypeOK
  <2> QED
    BY <1>3, <2>1, <2>2, <2>6, <2>7 DEF Compress, TransportTypeOK
<1>4. ASSUME NEW q \in Exchanges, WriteHeader(q) PROVE TransportTypeOK'
  <2>1. PICK c \in {200, 304, 500}, given \in BOOLEAN : Header(q, c, given)
    <3>1. \/ \E given \in BOOLEAN : Header(q, 200, given)
          \/ Header(q, 304, FALSE) \/ Header(q, 200, FALSE) \/ Header(q, 500, FALSE)
      <4>1. CASE gz[q] = Nobody
        BY <1>4, <4>1 DEF WriteHeader
      <4>2. CASE gz[q] # Nobody
        BY <1>4, <4>2 DEF WriteHeader
      <4> QED
        BY <4>1, <4>2
    <3>2. CASE \E given \in BOOLEAN : Header(q, 200, given)
      <4>1. PICK given \in BOOLEAN : Header(q, 200, given)
        BY <3>2
      <4> WITNESS 200 \in {200, 304, 500}, given \in BOOLEAN
      <4> QED
        BY <4>1
    <3>3. CASE Header(q, 304, FALSE)
      <4> WITNESS 304 \in {200, 304, 500}, FALSE \in BOOLEAN
      <4> QED
        BY <3>3
    <3>4. CASE Header(q, 500, FALSE)
      <4> WITNESS 500 \in {200, 304, 500}, FALSE \in BOOLEAN
      <4> QED
        BY <3>4
    <3>5. Header(q, 200, FALSE) => \E given \in BOOLEAN : Header(q, 200, given)
      OBVIOUS
    <3> QED
      BY <3>1, <3>2, <3>3, <3>4, <3>5
  <2>2. Holders' = Holders
    BY <1>4 DEF WriteHeader, Holders
  <2>3. (gz[q] # Nobody /\ ~Bodiless(c)) \in BOOLEAN /\ LengthLeft(given) \in BOOLEAN
    BY DEF LengthLeft
  <2>4. /\ wroteHeader' \in [Exchanges -> BOOLEAN] /\ compressing' \in [Exchanges -> BOOLEAN]
        /\ code' \in [Exchanges -> {0, 200, 304, 401, 500}]
        /\ encoded' \in [Exchanges -> BOOLEAN] /\ length' \in [Exchanges -> BOOLEAN]
    BY <2>1, <2>3 DEF Header, TransportTypeOK
  <2> QED
    BY <1>4, <2>2, <2>4 DEF WriteHeader, TransportTypeOK
<1>5. ASSUME NEW q \in Exchanges, Write(q) PROVE TransportTypeOK'
  <2>1. written[q] + 1 \in 0 .. MaxParts
    BY <1>5, TransportAssumption DEF Write, TransportTypeOK
  <2>2. written' \in [Exchanges -> 0 .. MaxParts]
    BY <1>5, <2>1 DEF Write, TransportTypeOK
  <2>3. Holders' = Holders
    BY <1>5 DEF Write, Holders
  <2>4. /\ body' \in [Exchanges -> Seq(Parts)] /\ kept' \in [Compressors -> Seq(Parts)]
        /\ failed' \in [Compressors -> BOOLEAN]
    <3>1. CASE compressing[q]
      <4>1. gz[q] \in Compressors /\ target[gz[q]] = q
        BY <1>5, <3>1 DEF Write, TransportTypeOK, HeaderInv, Holders
      <4>2. Squeeze(gz[q], <<Part(q, written[q] + 1, TRUE)>>, FALSE)
        BY <1>5, <3>1 DEF Write
      <4> QED
        BY <2>1, <4>1, <4>2, PartsTyped, SqueezeTyped
    <3>2. CASE ~compressing[q]
      <4>1. <<Part(q, written[q] + 1, FALSE)>> \in Seq(Parts)
        BY <2>1, PartsTyped
      <4>2. Received(q, <<Part(q, written[q] + 1, FALSE)>>) \in Seq(Parts)
        BY <4>1, ConcatProperties DEF Received, TransportTypeOK
      <4>3. /\ body' = [body EXCEPT ![q] = Received(q, <<Part(q, written[q] + 1, FALSE)>>)]
            /\ UNCHANGED <<kept, failed>>
        BY <1>5, <3>2 DEF Write
      <4> QED
        BY <4>2, <4>3 DEF TransportTypeOK
    <3> QED
      BY <3>1, <3>2 DEF TransportTypeOK
  <2> QED
    BY <1>5, <2>2, <2>3, <2>4 DEF Write, TransportTypeOK
<1>6. ASSUME NEW q \in Exchanges, Return(q) PROVE TransportTypeOK'
  <2>1. Holders' = Holders
    BY <1>6 DEF Return, TransportTypeOK, Holders, Deferred
  <2> QED
    BY <1>6, <2>1 DEF Return, TransportTypeOK, Deferred
<1>7. ASSUME NEW q \in Exchanges, Close(q) PROVE TransportTypeOK'
  <2>1. at' = [at EXCEPT ![q] = "put"]
    BY <1>7 DEF Close, After, Deferred
  <2>2. Holders' = Holders
    BY <1>7, <2>1 DEF Close, TransportTypeOK, Holders
  <2>3. /\ body' \in [Exchanges -> Seq(Parts)] /\ kept' \in [Compressors -> Seq(Parts)]
        /\ failed' \in [Compressors -> BOOLEAN]
    <3>1. CASE compressing[q]
      <4>1. gz[q] \in Compressors /\ target[gz[q]] = q
        BY <1>7, <3>1 DEF Close, TransportTypeOK, HeaderInv, Holders
      <4>2. Squeeze(gz[q], <<Part(q, End, TRUE)>>, TRUE)
        BY <1>7, <3>1 DEF Close
      <4>3. End \in 0 .. MaxParts
        BY TransportAssumption DEF End
      <4> QED
        BY <4>1, <4>2, <4>3, PartsTyped, SqueezeTyped
    <3>2. CASE ~compressing[q]
      <4>1. UNCHANGED <<body, kept, failed>>
        BY <1>7, <3>2 DEF Close
      <4> QED
        BY <4>1 DEF TransportTypeOK
    <3> QED
      BY <3>1, <3>2 DEF TransportTypeOK
  <2> QED
    <3>1. UNCHANGED <<call, gz, wroteHeader, compressing, written, gone, code, encoded, length, pool, target>>
      BY <1>7 DEF Close
    <3>2. at' \in [Exchanges -> {"new", "handler", "close", "put", "answered"}]
      BY <2>1 DEF TransportTypeOK
    <3>3. /\ \A p \in Holders' : gz'[p] \notin pool' /\ target'[gz'[p]] = p
          /\ \A p, r \in Holders' : gz'[p] = gz'[r] => p = r
      BY <2>2, <3>1 DEF TransportTypeOK
    <3> QED
      BY <2>3, <3>1, <3>2, <3>3 DEF TransportTypeOK
<1>8. ASSUME NEW q \in Exchanges, Put(q) PROVE TransportTypeOK'
  <2>1. at' = [at EXCEPT ![q] = "answered"] /\ pool' = pool \cup {gz[q]}
    BY <1>8 DEF Put, After, Deferred
  <2>2. gz[q] \in Compressors /\ q \in Holders
    <3>1. at[q] = "put"
      BY <1>8 DEF Put
    <3>2. gz[q] # Nobody
      BY <3>1 DEF HeaderInv
    <3>3. gz[q] \in Compressors \cup {Nobody}
      BY DEF TransportTypeOK
    <3> QED
      BY <3>1, <3>2, <3>3 DEF Holders
  <2>3. Holders' = Holders \ {q}
    BY <1>8, <2>1 DEF Put, TransportTypeOK, Holders
  <2>4. \A p \in Holders' : gz[p] # gz[q]
    BY <2>2, <2>3 DEF TransportTypeOK
  <2>5. \A p \in Holders' : gz'[p] \notin pool' /\ target'[gz'[p]] = p
    BY <1>8, <2>1, <2>3, <2>4 DEF Put, TransportTypeOK
  <2> QED
    BY <1>8, <2>1, <2>2, <2>3, <2>5 DEF Put, TransportTypeOK
<1>9. ASSUME NEW q \in Exchanges, Leave(q) PROVE TransportTypeOK'
  <2>1. Holders' = Holders
    BY <1>9 DEF Leave, Holders
  <2> QED
    BY <1>9, <2>1 DEF Leave, TransportTypeOK
<1>10. CASE UNCHANGED transportVars
  BY <1>10 DEF transportVars, TransportTypeOK, Holders
<1>11. CASE TransportNext
  <2>1. PICK q \in Exchanges : Serve(q) \/ Leave(q)
    BY <1>11 DEF TransportNext
  <2>2. \/ Unauthorized(q) \/ Pass(q) \/ Compress(q) \/ WriteHeader(q) \/ Write(q) \/ Return(q)
        \/ Close(q) \/ Put(q) \/ Leave(q)
    BY <2>1 DEF Serve
  <2> QED
    BY <1>1, <1>2, <1>3, <1>4, <1>5, <1>6, <1>7, <1>8, <1>9, <2>2
<1> QED
  BY <1>10, <1>11

(***************************************************************************)
(* Headers.                                                                *)
(***************************************************************************)
LEMMA HeaderInit == TransportInit => HeaderInv
BY DEF TransportInit, HeaderInv

LEMMA HeaderNext == TransportTypeOK /\ HeaderInv /\ [TransportNext]_transportVars => HeaderInv'
<1> SUFFICES ASSUME TransportTypeOK, HeaderInv, [TransportNext]_transportVars PROVE HeaderInv'
  OBVIOUS
<1> USE DEF requestVars, responseVars, gzipVars
<1>1. ASSUME NEW q \in Exchanges, Unauthorized(q) PROVE HeaderInv'
  BY <1>1 DEF Unauthorized, HeaderInv, TransportTypeOK
<1>2. ASSUME NEW q \in Exchanges, Pass(q) PROVE HeaderInv'
  BY <1>2 DEF Pass, HeaderInv, TransportTypeOK
<1>3. ASSUME NEW q \in Exchanges, Compress(q) PROVE HeaderInv'
  <2>1. PICK k \in pool : gz' = [gz EXCEPT ![q] = k]
    BY <1>3 DEF Compress
  <2>2. call[q].path # "stream"
    BY <1>3 DEF Compress, PassesThrough
  <2>3. UNCHANGED <<call, wroteHeader, compressing, written, code, encoded, length>> /\ at[q] = "new"
    BY <1>3 DEF Compress
  <2>4. at' = [at EXCEPT ![q] = "handler"]
    BY <1>3 DEF Compress
  <2>5. \A p \in Exchanges : p # q => at'[p] = at[p] /\ gz'[p] = gz[p]
    BY <2>1, <2>4 DEF TransportTypeOK
  <2>6. at'[q] = "handler"
    BY <2>4 DEF TransportTypeOK
  <2> QED
    BY <2>2, <2>3, <2>5, <2>6 DEF HeaderInv
<1>4. ASSUME NEW q \in Exchanges, WriteHeader(q) PROVE HeaderInv'
  <2>1. PICK c, given : Header(q, c, given)
    BY <1>4 DEF WriteHeader
  <2>2. call[q].path = "stream" => code'[q] = 200
    <3> SUFFICES ASSUME call[q].path = "stream" PROVE code'[q] = 200
      OBVIOUS
    <3>1. gz[q] = Nobody
      BY DEF HeaderInv
    <3>2. Header(q, 200, FALSE)
      BY <1>4, <3>1 DEF WriteHeader
    <3> QED
      BY <3>2 DEF Header, TransportTypeOK
  <2>3. \A p \in Exchanges : /\ p # q => code'[p] = code[p]
                            /\ gz'[p] = gz[p] /\ call'[p] = call[p]
    BY <1>4, <2>1 DEF WriteHeader, Header, TransportTypeOK
  <2>4. \A p \in Exchanges : call'[p].path = "stream" => gz'[p] = Nobody /\ code'[p] \in {0, 200, 401}
    BY <2>2, <2>3 DEF HeaderInv
  <2>5. \A p \in Exchanges :
          /\ encoded'[p] = compressing'[p] /\ (length'[p] => ~encoded'[p])
          /\ compressing'[p] => wroteHeader'[p] /\ gz'[p] # Nobody
          /\ wroteHeader'[p] => at'[p] # "new"
          /\ gz'[p] = Nobody => at'[p] \in {"new", "handler", "answered"}
          /\ at'[p] = "new" => gz'[p] = Nobody
          /\ at'[p] # "answered" /\ ~wroteHeader'[p] => written'[p] = 0
    BY <1>4, <2>1 DEF WriteHeader, Header, LengthLeft, HeaderInv, TransportTypeOK
  <2> QED
    BY <2>4, <2>5 DEF HeaderInv
<1>5. ASSUME NEW q \in Exchanges, Write(q) PROVE HeaderInv'
  BY <1>5 DEF Write, HeaderInv, TransportTypeOK
<1>6. ASSUME NEW q \in Exchanges, Return(q) PROVE HeaderInv'
  BY <1>6 DEF Return, Deferred, HeaderInv, TransportTypeOK
<1>7. ASSUME NEW q \in Exchanges, Close(q) PROVE HeaderInv'
  BY <1>7 DEF Close, After, Deferred, HeaderInv, TransportTypeOK
<1>8. ASSUME NEW q \in Exchanges, Put(q) PROVE HeaderInv'
  BY <1>8 DEF Put, After, Deferred, HeaderInv, TransportTypeOK
<1>9. ASSUME NEW q \in Exchanges, Leave(q) PROVE HeaderInv'
  BY <1>9 DEF Leave, HeaderInv
<1>10. CASE UNCHANGED transportVars
  BY <1>10 DEF transportVars, HeaderInv
<1>11. CASE TransportNext
  <2>1. PICK q \in Exchanges : Serve(q) \/ Leave(q)
    BY <1>11 DEF TransportNext
  <2>2. \/ Unauthorized(q) \/ Pass(q) \/ Compress(q) \/ WriteHeader(q) \/ Write(q) \/ Return(q)
        \/ Close(q) \/ Put(q) \/ Leave(q)
    BY <2>1 DEF Serve
  <2> QED
    BY <1>1, <1>2, <1>3, <1>4, <1>5, <1>6, <1>7, <1>8, <1>9, <2>2
<1> QED
  BY <1>10, <1>11

(***************************************************************************)
(* Bodies.                                                                 *)
(***************************************************************************)
LEMMA BodyInit == TransportInit => BodyInv
<1> SUFFICES ASSUME TransportInit, NEW q \in Exchanges PROVE Intact(q)
  BY DEF BodyInv
<1>1. at[q] = "new" /\ compressing[q] = FALSE /\ body[q] = <<>> /\ written[q] = 0
  BY DEF TransportInit
<1>2. First(q, 0, FALSE) = <<>>
  BY FirstNone
<1> QED
  BY <1>1, <1>2 DEF Intact

\* A request whose own state and whose compressor do not change keeps its body.
LEMMA Undisturbed ==
  ASSUME TransportTypeOK, HeaderInv, NEW p \in Exchanges, Intact(p),
         at'[p] = at[p], gz'[p] = gz[p], wroteHeader'[p] = wroteHeader[p],
         compressing'[p] = compressing[p], written'[p] = written[p], body'[p] = body[p],
         p \in Holders => kept'[gz[p]] = kept[gz[p]] /\ failed'[gz[p]] = failed[gz[p]]
  PROVE  Intact(p)'
<1>1. at[p] \in {"handler", "close"} /\ gz[p] # Nobody => p \in Holders
  BY DEF Holders
<1>2. compressing[p] => gz[p] # Nobody
  BY DEF HeaderInv
<1>3. Fresh(p) /\ at[p] = "handler" => Fresh(p)'
  BY <1>1 DEF Fresh
<1>4. Follows(p) /\ compressing[p] /\ at[p] \in {"handler", "close"} => Follows(p)'
  BY <1>1, <1>2 DEF Follows
<1>5. Whole(p, TRUE)' = Whole(p, TRUE)
  BY DEF Whole
<1> QED
  BY <1>3, <1>4, <1>5 DEF Intact

\* The compressor takes a part of q, and what it has and what is on the wire has
\* grown by that part.
LEMMA SqueezedIn ==
  ASSUME TransportTypeOK, HeaderInv, BodyInv, NEW q \in Exchanges, compressing[q],
         at[q] \in {"handler", "close"}, NEW parts \in Seq(Parts), NEW closes \in BOOLEAN,
         Squeeze(gz[q], parts, closes)
  PROVE  /\ \A p \in Exchanges : p # q => body'[p] = body[p]
         /\ \A p \in Holders : p # q => kept'[gz[p]] = kept[gz[p]] /\ failed'[gz[p]] = failed[gz[p]]
         /\ ~gone[q] => /\ ~failed'[gz[q]]
                        /\ body'[q] \o kept'[gz[q]] = First(q, written[q], TRUE) \o parts
                        /\ closes => kept'[gz[q]] = <<>>
<1>1. q \in Holders /\ gz[q] \in Compressors /\ target[gz[q]] = q
  BY DEF Holders, HeaderInv, TransportTypeOK
<1>2. \A p \in Holders : p # q => gz[p] \in Compressors /\ gz[p] # gz[q]
  BY <1>1 DEF TransportTypeOK, Holders
<1>3. ~gone[q] => Follows(q)
  BY DEF BodyInv, Intact
<1>4. target[gz[q]] \in Exchanges
  BY <1>1
<1>5. /\ \A p \in Exchanges : p # target[gz[q]] => body'[p] = body[p]
      /\ \A l \in Compressors : l # gz[q] => kept'[l] = kept[l] /\ failed'[l] = failed[l]
      /\ ~gone[target[gz[q]]] /\ ~failed[gz[q]] =>
           /\ ~failed'[gz[q]]
           /\ body'[target[gz[q]]] \o kept'[gz[q]] = (body[target[gz[q]]] \o kept[gz[q]]) \o parts
           /\ closes => kept'[gz[q]] = <<>>
  BY <1>1, <1>4, SqueezeKeeps
<1>6. \A p \in Holders : p # q => kept'[gz[p]] = kept[gz[p]] /\ failed'[gz[p]] = failed[gz[p]]
  BY <1>2, <1>5
<1>7. ~gone[q] => /\ ~failed'[gz[q]]
                  /\ body'[q] \o kept'[gz[q]] = First(q, written[q], TRUE) \o parts
                  /\ closes => kept'[gz[q]] = <<>>
  <2> SUFFICES ASSUME ~gone[q] PROVE /\ ~failed'[gz[q]]
                                     /\ body'[q] \o kept'[gz[q]] = First(q, written[q], TRUE) \o parts
                                     /\ closes => kept'[gz[q]] = <<>>
    OBVIOUS
  <2>1. ~failed[gz[q]] /\ body[q] \o kept[gz[q]] = First(q, written[q], TRUE)
    BY <1>3 DEF Follows
  <2> QED
    BY <1>1, <1>5, <2>1
<1> QED
  BY <1>1, <1>5, <1>6, <1>7

LEMMA BodyNext == TransportTypeOK /\ HeaderInv /\ BodyInv /\ [TransportNext]_transportVars => BodyInv'
<1> SUFFICES ASSUME TransportTypeOK, HeaderInv, BodyInv, [TransportNext]_transportVars PROVE BodyInv'
  OBVIOUS
<1> USE DEF requestVars, responseVars, gzipVars
\* It is enough to look at the request that takes the step.
<1>a. ASSUME NEW q \in Exchanges, gone'[q] \/ Intact(q)', \A p \in Exchanges : gone'[p] = gone[p],
             \A p \in Exchanges : p # q =>
               /\ at'[p] = at[p] /\ gz'[p] = gz[p] /\ wroteHeader'[p] = wroteHeader[p]
               /\ compressing'[p] = compressing[p] /\ written'[p] = written[p] /\ body'[p] = body[p]
               /\ p \in Holders => kept'[gz[p]] = kept[gz[p]] /\ failed'[gz[p]] = failed[gz[p]]
      PROVE  BodyInv'
  <2> SUFFICES ASSUME NEW p \in Exchanges, ~gone'[p] PROVE Intact(p)'
    BY DEF BodyInv
  <2>1. CASE p = q
    BY <1>a, <2>1
  <2>2. CASE p # q
    <3>1. Intact(p)
      BY <1>a DEF BodyInv
    <3> QED
      BY <1>a, <2>2, <3>1, Undisturbed
  <2> QED
    BY <2>1, <2>2
<1>1. ASSUME NEW q \in Exchanges, Unauthorized(q) PROVE BodyInv'
  <2>1. /\ at'[q] = "answered" /\ written'[q] = 1 /\ compressing'[q] = compressing[q]
        /\ ~gone[q] => body'[q] = <<Part(q, 1, FALSE)>>
    <3>1. at'[q] = "answered" /\ written'[q] = 1 /\ compressing'[q] = compressing[q]
      BY <1>1 DEF Unauthorized, TransportTypeOK
    <3>2. body'[q] = IF gone[q] THEN body[q] ELSE <<Part(q, 1, FALSE)>>
      BY <1>1 DEF Unauthorized, TransportTypeOK
    <3> QED
      BY <3>1, <3>2
  <2>2. ~compressing[q]
    BY <1>1 DEF Unauthorized, HeaderInv
  <2>3. 0 \in 0 .. MaxParts /\ 0 < MaxParts /\ 1 \in 0 .. MaxParts
    BY TransportAssumption
  <2>4. <<>> \o <<Part(q, 1, FALSE)>> = First(q, 1, FALSE)
    <3>1. First(q, 0, FALSE) \o <<Part(q, 0 + 1, FALSE)>> = First(q, 0 + 1, FALSE)
      BY <2>3, FirstNext
    <3>2. 0 + 1 = 1
      OBVIOUS
    <3>3. First(q, 0, FALSE) = <<>>
      BY FirstNone
    <3> QED
      BY <3>1, <3>2, <3>3
  <2>5. <<>> \o <<Part(q, 1, FALSE)>> = <<Part(q, 1, FALSE)>>
    BY <2>3, PartsTyped, ConcatEmptySeq
  <2>6. gone'[q] \/ Intact(q)'
    BY <1>1, <2>1, <2>2, <2>4, <2>5 DEF Intact, Unauthorized
  <2> QED
    BY <1>1, <2>6, <1>a DEF Unauthorized, TransportTypeOK
<1>2. ASSUME NEW q \in Exchanges, Pass(q) PROVE BodyInv'
  <2>1. at'[q] = "handler" /\ gz[q] = Nobody /\ ~compressing[q]
    BY <1>2 DEF Pass, HeaderInv, TransportTypeOK
  <2>2. gone'[q] \/ Intact(q)'
    BY <1>2, <2>1 DEF Pass, Intact, Fresh, BodyInv
  <2> QED
    BY <1>2, <2>2, <1>a DEF Pass, TransportTypeOK
<1>3. ASSUME NEW q \in Exchanges, Compress(q) PROVE BodyInv'
  <2>1. PICK k \in pool : gz' = [gz EXCEPT ![q] = k] /\ Reset(k, q)
    BY <1>3 DEF Compress
  <2>2. k \in Compressors /\ \A p \in Holders : gz[p] \in Compressors /\ gz[p] # k
    BY DEF TransportTypeOK, Holders
  <2>3. at'[q] = "handler" /\ gz'[q] = k /\ ~compressing[q]
    BY <1>3, <2>1 DEF Compress, HeaderInv, TransportTypeOK
  <2>4. kept'[k] = <<>> /\ ~failed'[k]
    BY <2>1, <2>2 DEF Reset, TransportTypeOK
  <2>5. gone'[q] \/ Intact(q)'
    BY <1>3, <2>3, <2>4 DEF Compress, Intact, Fresh, BodyInv
  <2>6. \A p \in Holders : kept'[gz[p]] = kept[gz[p]] /\ failed'[gz[p]] = failed[gz[p]]
    <3>1. \A l \in Compressors : l # k => kept'[l] = kept[l] /\ failed'[l] = failed[l]
      BY <2>1, <2>2 DEF Reset, TransportTypeOK
    <3> QED
      BY <2>2, <3>1
  <2>7. \A p \in Exchanges :
          /\ gone'[p] = gone[p]
          /\ p # q => /\ at'[p] = at[p] /\ gz'[p] = gz[p] /\ wroteHeader'[p] = wroteHeader[p]
                      /\ compressing'[p] = compressing[p] /\ written'[p] = written[p]
                      /\ body'[p] = body[p]
    BY <1>3, <2>1 DEF Compress, TransportTypeOK
  <2> QED
    BY <2>5, <2>6, <2>7, <1>a
<1>4. ASSUME NEW q \in Exchanges, WriteHeader(q) PROVE BodyInv'
  <2>1. PICK c, given : Header(q, c, given)
    BY <1>4 DEF WriteHeader
  <2>2. /\ at[q] = "handler" /\ ~wroteHeader[q] /\ wroteHeader'[q] /\ written[q] = 0
        /\ compressing'[q] => gz[q] # Nobody
    BY <1>4, <2>1 DEF WriteHeader, Header, HeaderInv, TransportTypeOK
  <2>3. ~gone[q] => Fresh(q) /\ body[q] = <<>>
    BY <2>2, FirstNone DEF BodyInv, Intact, HeaderInv
  <2>4. <<>> \o <<>> = <<>>
    BY ConcatEmptySeq
  <2>5. ~gone[q] => body[q] = First(q, written[q], FALSE) /\ (gz[q] # Nobody => Follows(q))
    BY <2>2, <2>3, <2>4, FirstNone DEF Fresh, Follows
  <2>6. gone'[q] \/ Intact(q)'
    BY <1>4, <2>2, <2>5 DEF WriteHeader, Intact, Follows
  <2>7. UNCHANGED <<at, gz, gone, written, body, kept, failed>>
    BY <1>4 DEF WriteHeader
  <2>8. \A p \in Exchanges : p # q => wroteHeader'[p] = wroteHeader[p] /\ compressing'[p] = compressing[p]
    BY <2>1 DEF Header, TransportTypeOK
  <2> QED
    BY <2>6, <2>7, <2>8, <1>a
<1>5. ASSUME NEW q \in Exchanges, Write(q) PROVE BodyInv'
  <2>1. /\ at[q] = "handler" /\ wroteHeader[q] /\ written[q] \in 0 .. MaxParts /\ written[q] < MaxParts
        /\ written'[q] = written[q] + 1 /\ written[q] + 1 \in 0 .. MaxParts
    BY <1>5, TransportAssumption DEF Write, TransportTypeOK
  <2>2. CASE compressing[q]
    <3>1. Squeeze(gz[q], <<Part(q, written[q] + 1, TRUE)>>, FALSE)
      BY <1>5, <2>2 DEF Write
    <3>2. <<Part(q, written[q] + 1, TRUE)>> \in Seq(Parts)
      BY <2>1, PartsTyped
    <3>3. /\ \A p \in Exchanges : p # q => body'[p] = body[p]
          /\ \A p \in Holders : p # q => kept'[gz[p]] = kept[gz[p]] /\ failed'[gz[p]] = failed[gz[p]]
          /\ ~gone[q] => /\ ~failed'[gz[q]]
                         /\ body'[q] \o kept'[gz[q]] = First(q, written[q], TRUE) \o <<Part(q, written[q] + 1, TRUE)>>
      BY <2>1, <2>2, <3>1, <3>2, SqueezedIn
    <3>4. ~gone[q] => body'[q] \o kept'[gz[q]] = First(q, written'[q], TRUE)
      BY <2>1, <3>3, FirstNext
    <3>5. gone'[q] \/ Intact(q)'
      BY <1>5, <2>1, <2>2, <3>3, <3>4 DEF Write, Intact, Follows
    <3>6. \A p \in Exchanges :
            /\ gone'[p] = gone[p]
            /\ p # q => /\ at'[p] = at[p] /\ gz'[p] = gz[p] /\ wroteHeader'[p] = wroteHeader[p]
                        /\ compressing'[p] = compressing[p] /\ written'[p] = written[p]
      BY <1>5 DEF Write, TransportTypeOK
    <3> QED
      BY <3>3, <3>5, <3>6, <1>a
  <2>3. CASE ~compressing[q]
    <3>1. /\ body' = [body EXCEPT ![q] = Received(q, <<Part(q, written[q] + 1, FALSE)>>)]
          /\ UNCHANGED <<kept, failed>>
      BY <1>5, <2>3 DEF Write
    <3>2. ~gone[q] => body'[q] = First(q, written[q], FALSE) \o <<Part(q, written[q] + 1, FALSE)>>
      <4>1. ~gone[q] => body[q] = First(q, written[q], FALSE)
        BY <2>3 DEF BodyInv, Intact
      <4>2. body'[q] = Received(q, <<Part(q, written[q] + 1, FALSE)>>)
        BY <3>1 DEF TransportTypeOK
      <4> QED
        BY <4>1, <4>2 DEF Received
    <3>3. ~gone[q] => body'[q] = First(q, written'[q], FALSE)
      BY <2>1, <3>2, FirstNext
    <3>4. gone'[q] \/ Intact(q)'
      BY <1>5, <2>1, <2>3, <3>3 DEF Write, Intact
    <3> QED
      BY <1>5, <3>1, <3>4, <1>a DEF Write, TransportTypeOK
  <2> QED
    BY <2>2, <2>3 DEF TransportTypeOK
<1>6. ASSUME NEW q \in Exchanges, Return(q) PROVE BodyInv'
  <2>1. /\ at[q] = "handler" /\ at'[q] \in {"answered", "close"} /\ wroteHeader[q]
        /\ at'[q] = "answered" => gz[q] = Nobody
    BY <1>6 DEF Return, Deferred, TransportTypeOK
  <2>2. at'[q] = "answered" => ~compressing[q]
    BY <2>1 DEF HeaderInv
  <2>3. gone'[q] \/ Intact(q)'
    BY <1>6, <2>1, <2>2 DEF Return, Intact, Follows, BodyInv
  <2> QED
    BY <1>6, <2>3, <1>a DEF Return, TransportTypeOK
<1>7. ASSUME NEW q \in Exchanges, Close(q) PROVE BodyInv'
  <2>1. at[q] = "close" /\ at'[q] = "put"
    BY <1>7 DEF Close, After, Deferred, TransportTypeOK
  <2>2. CASE compressing[q]
    <3>1. Squeeze(gz[q], <<Part(q, End, TRUE)>>, TRUE)
      BY <1>7, <2>2 DEF Close
    <3>2. End \in 0 .. MaxParts
      BY TransportAssumption DEF End
    <3>3. <<Part(q, End, TRUE)>> \in Seq(Parts)
      BY <3>2, PartsTyped
    <3>4. /\ \A p \in Exchanges : p # q => body'[p] = body[p]
          /\ \A p \in Holders : p # q => kept'[gz[p]] = kept[gz[p]] /\ failed'[gz[p]] = failed[gz[p]]
          /\ ~gone[q] => /\ body'[q] \o kept'[gz[q]] = First(q, written[q], TRUE) \o <<Part(q, End, TRUE)>>
                         /\ kept'[gz[q]] = <<>>
      BY <2>1, <2>2, <3>1, <3>3, SqueezedIn
    <3>5. body'[q] \in Seq(Parts)
      BY TypeNext DEF TransportTypeOK
    <3>6. ~gone[q] => body'[q] = Whole(q, TRUE)
      BY <3>4, <3>5, ConcatEmptySeq DEF Whole
    <3>7. gone'[q] \/ Intact(q)'
      BY <1>7, <2>1, <2>2, <3>6 DEF Close, Intact, Whole
    <3>8. \A p \in Exchanges :
            /\ gone'[p] = gone[p]
            /\ p # q => /\ at'[p] = at[p] /\ gz'[p] = gz[p] /\ wroteHeader'[p] = wroteHeader[p]
                        /\ compressing'[p] = compressing[p] /\ written'[p] = written[p]
      BY <1>7 DEF Close, TransportTypeOK
    <3> QED
      BY <3>4, <3>7, <3>8, <1>a
  <2>3. CASE ~compressing[q]
    <3>1. UNCHANGED <<body, kept, failed>>
      BY <1>7, <2>3 DEF Close
    <3>2. gone'[q] \/ Intact(q)'
      BY <1>7, <2>1, <2>3, <3>1 DEF Close, Intact, BodyInv
    <3> QED
      BY <1>7, <3>1, <3>2, <1>a DEF Close, TransportTypeOK
  <2> QED
    BY <2>2, <2>3
<1>8. ASSUME NEW q \in Exchanges, Put(q) PROVE BodyInv'
  <2>1. at[q] = "put" /\ at'[q] = "answered"
    BY <1>8 DEF Put, After, Deferred, TransportTypeOK
  <2>2. gone'[q] \/ Intact(q)'
    BY <1>8, <2>1 DEF Put, Intact, Whole, BodyInv
  <2> QED
    BY <1>8, <2>2, <1>a DEF Put, TransportTypeOK
<1>9. ASSUME NEW q \in Exchanges, Leave(q) PROVE BodyInv'
  <2> SUFFICES ASSUME NEW p \in Exchanges, ~gone'[p] PROVE Intact(p)'
    BY DEF BodyInv
  <2>1. Intact(p)
    BY <1>9 DEF Leave, BodyInv, TransportTypeOK
  <2> QED
    BY <1>9, <2>1 DEF Leave, Intact, Fresh, Follows, Whole
<1>10. CASE UNCHANGED transportVars
  BY <1>10 DEF transportVars, BodyInv, Intact, Fresh, Follows, Whole
<1>11. CASE TransportNext
  <2>1. PICK q \in Exchanges : Serve(q) \/ Leave(q)
    BY <1>11 DEF TransportNext
  <2>2. \/ Unauthorized(q) \/ Pass(q) \/ Compress(q) \/ WriteHeader(q) \/ Write(q) \/ Return(q)
        \/ Close(q) \/ Put(q) \/ Leave(q)
    BY <2>1 DEF Serve
  <2> QED
    BY <1>1, <1>2, <1>3, <1>4, <1>5, <1>6, <1>7, <1>8, <1>9, <2>2
<1> QED
  BY <1>10, <1>11

(***************************************************************************)
(* Theorems.                                                               *)
(***************************************************************************)
\* A compressor is in the pool or with the one request that took it, and writes
\* to that request's response (gzip.go 38-46).
THEOREM TransportTyped == TransportSpec => []TransportTypeOK
<1>1. TransportInit => TransportTypeOK /\ HeaderInv
  BY TypeInit, HeaderInit
<1>2. TransportTypeOK /\ HeaderInv /\ [TransportNext]_transportVars => (TransportTypeOK /\ HeaderInv)'
  BY TypeNext, HeaderNext
<1> QED
  BY <1>1, <1>2, PTL DEF TransportSpec

\* Whoever stayed has the whole body of its own answer, in the encoding its
\* headers name, however requests share the compressors and whichever clients
\* leave, and streams are never behind (gzip.go 31-49, 66-69, 82-85).
THEOREM BodiesAreWhole == TransportSpec => []BodyIsWhole
<1> DEFINE Inv == TransportTypeOK /\ HeaderInv /\ BodyInv
<1>1. TransportInit => Inv
  BY TypeInit, HeaderInit, BodyInit
<1>2. Inv /\ [TransportNext]_transportVars => Inv'
  BY TypeNext, HeaderNext, BodyNext
<1>3. Inv => BodyIsWhole
  <2> SUFFICES ASSUME Inv, NEW q \in Exchanges, ~gone[q]
               PROVE  /\ at[q] = "answered" => Delivered(q)
                      /\ call[q].path = "stream" /\ code[q] \notin {0, 401} => Immediate(q)
    BY DEF BodyIsWhole
  <2>1. encoded[q] = compressing[q] /\ ~(length[q] /\ encoded[q])
    BY DEF HeaderInv
  <2>2. CASE compressing[q]
    <3>1. at[q] = "answered" => body[q] = Whole(q, TRUE)
      BY <2>2 DEF BodyInv, Intact
    <3>2. call[q].path # "stream"
      BY <2>2 DEF HeaderInv
    <3> QED
      BY <2>1, <2>2, <3>1, <3>2 DEF Whole, Delivered
  <2>3. CASE ~compressing[q]
    <3>1. body[q] = First(q, written[q], FALSE) /\ body[q] \in Seq(Parts)
      BY <2>3 DEF BodyInv, Intact, TransportTypeOK
    <3>2. body[q] \o <<>> = body[q]
      BY <3>1, ConcatEmptySeq
    <3>3. encoded[q] = FALSE
      BY <2>1, <2>3 DEF TransportTypeOK
    <3>4. Whole(q, FALSE) = First(q, written[q], FALSE) \o <<>>
      BY DEF Whole
    <3>5. Delivered(q)
      BY <2>1, <3>1, <3>2, <3>3, <3>4 DEF Delivered
    <3>6. call[q].path = "stream" /\ code[q] \notin {0, 401} => code[q] = 200
      BY DEF HeaderInv
    <3> QED
      BY <3>1, <3>5, <3>6 DEF Immediate
  <2> QED
    BY <2>2, <2>3
<1> QED
  BY <1>1, <1>2, <1>3, PTL DEF TransportSpec
=============================================================================
