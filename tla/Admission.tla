----------------------------- MODULE Admission -----------------------------
(***************************************************************************)
(* From a request to a configuration an engine is started with: resolve    *)
(* and handleRun, the head of handleBench (internal/uiserver/server.go),   *)
(* the head of antsim's run (cmd/antsim/main.go), Config.Validate          *)
(* (internal/config/load.go) and checkLimits (limits.go).  One request is  *)
(* followed; a step is one of its early returns.                           *)
(*                                                                         *)
(* Go's int has IntRange values and wraps: sums and products of the        *)
(* numbers a document carries are taken as the code takes them.            *)
(***************************************************************************)
EXTENDS Integers, Sequences, FiniteSets

CONSTANTS
  Requests,   \* [kind, doc, seed, ticks, ants, count, engineKnown]
  None,       \* an override that is absent; a document that does not decode
  IntRange,   \* 2^64
  MaxCells, MaxAnts, MaxTicks, MaxAntTicks, MaxItems, MaxRepeat,
  Unlimited   \* Server.DisableLimits

\* A document that decodes holds ints; seeds, ratios and pheromone are unsigned
\* and may be larger.
Ints == -(IntRange \div 2) .. IntRange \div 2 - 1
Points == Ints \X Ints
Rectangles == [x : Ints, y : Ints, w : Ints, h : Ints]
Configs ==
  [version : Ints, seed : Nat, width : Ints, height : Ints, ticks : Ints, ants : Ints,
   nest : Points, walls : Seq(Rectangles), food : Seq([at : Points, amount : Ints]),
   evap : Nat \X Nat, diff : Nat \X Nat, random : Nat \X Nat, max : Nat]
Asks ==
  [kind : {"run", "bench", "antsim"}, doc : {None} \cup Configs, seed : {None} \cup Nat,
   ticks : {None} \cup Ints, ants : {None} \cup Ints, count : Ints, engineKnown : BOOLEAN]

ASSUME AdmissionAssumption ==
  /\ IntRange \in Nat \ {0} /\ IntRange % 2 = 0
  /\ Requests \subseteq Asks
  /\ \A m \in {MaxCells, MaxAnts, MaxTicks, MaxAntTicks, MaxItems, MaxRepeat} : m \in Nat
  /\ 2 * MaxCells * MaxCells < IntRange /\ 2 * MaxAnts * MaxTicks < IntRange
  /\ Unlimited \in BOOLEAN

VARIABLES
  req,   \* the request
  cfg,   \* its configuration, once loaded
  step,  \* how far it came
  count  \* Interval of a run, Repeat of a bench or of antsim

admissionVars == <<req, cfg, step, count>>

Wrap(x) == ((x + IntRange \div 2) % IntRange) - IntRange \div 2

(***************************************************************************)
(* Config.Validate.  A point is <<x, y>>, a ratio <<num, den>>.            *)
(***************************************************************************)
InBounds(c, p) == p[1] >= 0 /\ p[2] >= 0 /\ p[1] < c.width /\ p[2] < c.height
Contains(r, p) ==
  /\ p[1] >= r.x /\ p[1] < Wrap(r.x + r.w)
  /\ p[2] >= r.y /\ p[2] < Wrap(r.y + r.h)

Escapes(c, r) ==
  r.x < 0 \/ r.y < 0 \/ Wrap(r.x + r.w) > c.width \/ Wrap(r.y + r.h) > c.height

WallOK(c, r) == r.w > 0 /\ r.h > 0 /\ ~Escapes(c, r) /\ ~Contains(r, c.nest)
PileOK(c, f) ==
  f.amount > 0 /\ InBounds(c, f.at) /\ \A m \in DOMAIN c.walls : ~Contains(c.walls[m], f.at)
RatioOK(q) == q[2] > 0 /\ q[1] <= q[2]

Valid(c) ==
  /\ c.version = 1
  /\ c.width > 0 /\ c.height > 0
  /\ c.ticks >= 0 /\ c.ants > 0
  /\ InBounds(c, c.nest)
  /\ \A m \in DOMAIN c.walls : WallOK(c, c.walls[m])
  /\ \A m \in DOMAIN c.food : PileOK(c, c.food[m])
  /\ RatioOK(c.evap) /\ RatioOK(c.diff) /\ RatioOK(c.random)
  /\ c.max > 0

\* checkLimits: the sides before their product, the factors before theirs.
\* Mutation: the product of the sides alone.
TooManyCellsByProduct(c) == Wrap(c.width * c.height) > MaxCells
TooManyCells(c) ==
  c.width > MaxCells \/ c.height > MaxCells \/ Wrap(c.width * c.height) > MaxCells
TooMuchWork(c) ==
  c.ants > MaxAnts \/ c.ticks > MaxTicks \/ Wrap(c.ants * c.ticks) > MaxAntTicks
ExceedsLimits(c) ==
  TooManyCells(c) \/ TooMuchWork(c) \/ Len(c.walls) + Len(c.food) > MaxItems

(***************************************************************************)
(* The steps of a request.                                                 *)
(***************************************************************************)
AdmissionInit == req \in Requests /\ cfg = None /\ step = "received" /\ count = None

Go(to) == step' = to /\ UNCHANGED req

\* Parse, LoadScenario or Load: a document is validated when it is loaded.
Load ==
  /\ step = "received"
  /\ IF req.doc # None /\ Valid(req.doc)
     THEN cfg' = req.doc /\ Go("loaded")
     ELSE Go("refused") /\ UNCHANGED cfg
  /\ UNCHANGED count

Given(value, default) == IF value = None THEN default ELSE value

\* resolve.
RunConfig ==
  [cfg EXCEPT !.seed = Given(req.seed, @), !.ticks = Given(req.ticks, @),
              !.ants = Given(req.ants, @)]
\* A bench cannot change the number of ants.
BenchConfig == [cfg EXCEPT !.seed = Given(req.seed, @), !.ticks = Given(req.ticks, @)]
\* antsim neither, and to it a negative override is none.
Flag(value, default) == IF value = None \/ value < 0 THEN default ELSE value
SimConfig == [cfg EXCEPT !.seed = Flag(req.seed, @), !.ticks = Flag(req.ticks, @)]

Override ==
  /\ step = "loaded"
  /\ cfg' = CASE req.kind = "run"    -> RunConfig
               [] req.kind = "bench"  -> BenchConfig
               [] req.kind = "antsim" -> SimConfig
  /\ Go("overridden")
  /\ UNCHANGED count

\* Mutation: only the document was validated, not the overrides.
Trusted(c) == TRUE
Sound(c) == Valid(c)

Validate ==
  /\ step = "overridden"
  /\ Go(IF Sound(cfg) THEN "valid" ELSE "refused")
  /\ UNCHANGED <<cfg, count>>

CheckLimits ==
  /\ step = "valid"
  /\ Go(IF req.kind # "antsim" /\ ~Unlimited /\ ExceedsLimits(cfg) THEN "refused" ELSE "within")
  /\ UNCHANGED <<cfg, count>>

AtLeastOne(k) == IF k < 1 THEN 1 ELSE k

\* hub.start and antsim refuse an unknown engine here, a bench gives it a row.
Admit ==
  /\ step = "within"
  /\ req.engineKnown \/ req.kind = "bench"
  /\ req.kind = "bench" /\ ~Unlimited => AtLeastOne(req.count) <= MaxRepeat
  /\ count' = AtLeastOne(req.count)
  /\ Go("admitted")
  /\ UNCHANGED cfg

Reject ==
  /\ step = "within"
  /\ \/ req.kind # "bench" /\ ~req.engineKnown
     \/ req.kind = "bench" /\ ~Unlimited /\ AtLeastOne(req.count) > MaxRepeat
  /\ Go("refused")
  /\ UNCHANGED <<cfg, count>>

AdmissionNext == Load \/ Override \/ Validate \/ CheckLimits \/ Admit \/ Reject
-----------------------------------------------------------------------------
(***************************************************************************)
(* Properties.                                                             *)
(***************************************************************************)
Admitted == step = "admitted"

\* The cells newWorld marks as walls: its loops run to the sums as they wrap.
Marked(c) ==
  UNION {(r.x .. Wrap(r.x + r.w) - 1) \X (r.y .. Wrap(r.y + r.h) - 1) :
         r \in {c.walls[m] : m \in DOMAIN c.walls}}

\* What every engine relies on (Grid's ConfigAssumption and WorldAssumption): an
\* admitted configuration, overrides included, builds a world whose walls are
\* on the grid and leave the nest and the food free, also where a sum wrapped.
EnginesMayRelyOnIt ==
  Admitted =>
    /\ cfg.width > 0 /\ cfg.height > 0 /\ cfg.ticks >= 0 /\ cfg.ants > 0
    /\ Marked(cfg) \subseteq (0 .. cfg.width - 1) \X (0 .. cfg.height - 1)
    /\ InBounds(cfg, cfg.nest) /\ cfg.nest \notin Marked(cfg)
    /\ \A m \in DOMAIN cfg.food : InBounds(cfg, cfg.food[m].at) /\ cfg.food[m].at \notin Marked(cfg)

\* The caps hold of the numbers themselves, not of products that wrapped: an
\* admitted grid has the cells the dense engines allocate for it and no more
\* than MaxCells of them, and a run no more ant-ticks than MaxAntTicks.
CapsAreReal ==
  Admitted /\ req.kind # "antsim" /\ ~Unlimited =>
    /\ cfg.width * cfg.height <= MaxCells
    /\ cfg.ants * cfg.ticks <= MaxAntTicks
    /\ count >= 1
=============================================================================
