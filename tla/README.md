# Ant colony: TLA+ models, checks and proofs

This directory specifies the ant colony simulator of this repository: the
reference engine, the flat and the pooled engines that must reproduce it bit for
bit, the two variants built on it, the way a request takes until an engine may
rely on its configuration, and the places where goroutines and browsers meet:
live runs, engine comparisons, the page, the end of the process. TLC checks the
models on small instances; TLAPS proves the safety properties for every value of
the constants.

Paths below are relative to `src/`; `uiserver` stands for `internal/uiserver`.

## 1. Inventory of the system

| Component | State | Operations | Interacts with |
|---|---|---|---|
| reference engine `internal/engine/naive` | `World`: ants, food, two pheromone levels, deposits and next buffers, intents, counters | `newWorld`, `Run`, `tick` = sense, commit, decay, `snapshot`, `result` | reads a `Config`, a context and one random stream per ant; calls an `Observer` |
| `flatgrid` | the same world on slices addressed by `idx(x, y)` | as naive | - |
| `parallel`, `nogc` | the world of flatgrid and a `pool` of workers | as naive, phases A and C handed to the pool | one channel per worker and one `WaitGroup` |
| variant `gradient` | the world; each ant's `Steps` since its last anchor | as naive; commit scales what it lays by `falloff` | own golden files |
| variant `scent` | the world of gradient; the ordered piles | as gradient; a searching ant is drawn to `nearestScent` | own golden files |
| registry and interface `internal/simcore/engine.go` | map of constructors under an RWMutex | `Register`, `New`, `Names`, `VariantOf` | engines register in `init` |
| observer protocol `simcore/snapshot.go` | - | `Interval`, `OnTick` | called by `Run` after a tick that is due, and once at the end |
| random streams `simcore/rng.go` | 4 words per ant | `SplitMix64`, `SeedRng`, `Next`, `Intn` | one draw per ant at birth, two per ant and tick |
| result, hashes `simcore/result.go`, `hash.go`, `config/hash.go` | - | fold the final world into a checksum | compared by tests, by antsim and by the bench handler |
| configuration `internal/config` | - | `Load`, `Parse`, `Validate`, embedded scenarios | everything |
| limits `uiserver/limits.go` | - | `checkLimits`, the caps of a bench, the budgets | run and bench handlers |
| live runs `uiserver/hub.go` | the map of runs, the counter of ids; per run a context, a frame channel and a result | `start`, `get`, `stop`, the run's goroutine, `OnTick` | the handlers' goroutines, the engine's |
| run, stream, stop, result handlers `uiserver/server.go` | per stream the frame in hand | `handleRun`, `handleStream`, `handleStop`, `handleResult` | hub, browsers |
| bench handler `uiserver/server.go` | `benchSlot`; per request a context, the best run, reference and baseline per variant | `handleBench` | every engine, headless |
| server life cycle `uiserver/server.go`, `cmd/antweb` | the listener, main's context | `Listen`, the goroutine that calls `Shutdown`, the end of `main` | every handler through `BaseContext` |
| browser client `uiserver/static/app.js` | `currentRun`, `eventSource`, `cachedWalls`, the Start button | `startRun`, `stopRun`, `closeStream`, the handlers of the `EventSource` | the handlers, by requests that travel on their own |
| command line `cmd/antsim` | - | load, override, validate, run, compare repeats | every engine, headless |
| transport `uiserver/gzip.go`, `auth.go` | a `sync.Pool` of compressors; per response whether it is compressed | `RequireBasicAuth`, `withGzip`, `gzipResponseWriter` | wraps every handler |

What is hard here, and which property watches it:

- phase B depends on the order of the ants: two of them reach the last unit of a
  cell in one tick (`FoodBalance`, `FoodLeftIsWhatLies`, `ImplementsHarvest`);
- the turn-around of a blocked ant is decided in one phase and may be undone in
  another (`BlockedAntTurnsRound`, `WedgedOnlyBetweenWalls`);
- phase C skips zeros and so depends on buffers left by the tick before
  (`DecayStartsFromCleanBuffers`);
- slices replace maps, and an address beyond an edge may fall into the next row
  (`FlatTypeOK`, `ImplementsNaive`); the pool replaces loops by handoffs and a
  barrier, without a lock (`TypeOK`, `NoDataRace`, `NoWorkerLeft`);
- ints of a document wrap where they are added and multiplied
  (`EnginesMayRelyOnIt`, `CapsAreReal`); Lemire's rejection and the seeds of the
  ants are wrapping arithmetic that no golden file would show wrong (`Unbiased`,
  `OwnStreams`);
- the hub is a race of starts, stops, timeouts, engines and browsers, with a
  bounded channel that must never block the engine (`ForgottenRunsAreCancelled`,
  `EndIsFinal`, `FramesAccountedFor`, `FramesInOrder`, `OpeningFrameKept`,
  `RunEnds`, `StreamEnds`);
- a bench mixes a timeout with repeats and keeps "none yet" as the time 0
  (`OneBenchAtATime`, `BrokenAreFlagged`, `SpeedupWithinVariant`, `SlotComesBack`);
- the page has one canvas and one pair of globals for requests and streams that
  answer in any order, or never (`OneColony`, `WallsOfTheColony`,
  `StartComesBack`, `SourcesClose`);
- compressors go from request to request, also from one whose client left in the
  middle of a body, and one that keeps bytes to itself must stay away from the
  stream (`BodyIsWhole`);
- the process may end under its handlers (`StopIsClean`).

The full list, each at its line, is `hazards` in PROJECT.json.

## 2. Modules

| Module | Models | State and actions against the code |
|---|---|---|
| `Grid` | `Config`, and the pure rules of a tick | `ChooseMove`, `Step`, `Decayed`... are the functions of `naive/tick.go`. `ConfigAssumption` and `WorldAssumption` are what `Validate` accepts. No state |
| `Harvest` | what a colony promises about food | abstract: a unit goes from the ground to an ant to the nest |
| `Colony` | one `Run` of the reference engine | one action per step of `Run`: `LoopHead` (the `for` with its look at the context), `Sense` (phase A), `Commit` (phase B, one step per ant, in index order), `Decay` (phase C with swap and clears), `Observe`, `Finish`; `Cancel` is the environment's |
| `FlatGrid` | one `Run` of the flatgrid engine | the actions of `Colony` over slices: a grid is a function on `0 .. Width * Height - 1`, coordinates are checked before `Idx`, as in `passable` and `level`. An address outside a slice has no value, and a run that forms one fails. `ByCell` reads the slices as `Colony`'s grids |
| `Pool` | the worker pool of `parallel` and `nogc` | `Submit`, `HandOver`, `Released`, `Stop` are the caller's; `Advance`, `NextGrid`, `Done`, `Exit` one worker's |
| `Parallel` | one `Run` of the parallel or the nogc engine | `FlatGrid` and `Pool` together: `PooledLoopHead`, `PooledHand`, `PooledWait`, `PooledCommit`, `PooledStartDecay`, `PooledSwap`, `PooledObserve`, `PooledFinish` are the calling goroutine; `PooledSenseAnt`, `PooledDecayRow` and the idle steps of `Pool` a worker. The two engines differ in `Ant.Trail`, which no rule reads |
| `Gradient` | one `Run` of the gradient engine | extends `Colony` with `steps`. `GradientCommit` counts, anchors and marks with `Falloff`; the other actions are `Colony`'s, as the code's other functions are naive's |
| `Scent` | one `Run` of the scent engine | extends `Gradient` with the scan `NearestScent` and the bias in `ScentSense` |
| `Hub` | live runs, their engines and their browsers | a section under a mutex is one step. `Alloc` (context and id, before the lock), `Register` (under `hub.mu`), `Launch`; `LookUp` and `CancelFound` for stop; `LoopHead`, `TickDone`, `LastFrame`, `Store`, `Close` for the goroutine of a run; `Connect`, `Receive`, `Write`, `WriteFails`, `Leave`, `End` for a stream |
| `Bench` | engine comparisons | `Admit`, `Refuse` for `benchSlot`; `RunTick`, `RunReturns` for the repeats; `AddRow`, `AddError`, `Answer`; `TimeOut` and `HangUp` end the context |
| `Server` | the life of the process | extends `Bench` with the open streams: `Signal` ends every context, `Shutdown` closes the listener, `Exit` is the return of `Listen` and `main` |
| `Admission` | a request up to the engine it may start | one action per early return: `Load`, `Override`, `Validate`, `CheckLimits`, `Admit`, `Reject`, for runs, benches and antsim. Ints have `IntRange` values and wrap |
| `Rng` | the generator | `SplitMix64`, `SeedRng`, `Output`, `Advanced`, and one pass of `Intn` on words of any even width |
| `Setup` | an admitted request up to the first ticks' draws | extends `Admission` and `Rng`: `NewWorld` seeds a generator for each ant, `Call` and `Draw` are `Intn`'s loop |
| `UiClient` | the page | a handler of the script is one step: `ClickStart` up to its `await`, `Answer` or `Fail` after it, `ClickStop`; `Connect`, `Message`, `End`, `Break` for every `EventSource` ever made. Of the server it keeps what `Hub` shows of it |
| `Transport` | the middleware around the handlers | `Unauthorized`, `Pass`, `Compress` (`gzipPool.Get`, `Reset`) before the handler; `WriteHeader`, `Write`, `Return` are its calls; `Close` and `Put` the deferred function, in the order `Deferred`. `Squeeze` is what a `gzip.Writer` may do with a part: keep it, put out all it has, or nothing after an error |
| `MCWorlds`, `MCColony`, `MCDense`, `MCVariants`, `MCHub`, `MCBench`, `MCSetup`, `MCUiClient`, `MCServer` | - | the small instances |
| `GridProofs`, `ColonyProofs`, `GradientProofs`, `ParallelProofs`, `HubProofs`, `BenchProofs`, `RequestProofs`, `UiClientProofs` | - | the theorems; `GradientProofs` is about both variants, `ParallelProofs` about flatgrid too, `RequestProofs` about `Admission`, `Setup` and `Transport` |

What is abstracted:

- in the engines' modules a random stream is the sequence of its accepted raw
  draws, chosen at the start from the set `Streams`; `Rng` has the generator and
  the rejection. Every ant has its own stream and position, as in the code;
- words of phase C have width `WordRange` (2^64 in the code): a product that
  does not fit wraps, in the model as in Go;
- `Ant.Trail`, timing and memory counters are not modelled: no rule reads them.
  Neither is `Ant.Steps` outside the variants, where naive counts it and never
  looks. A frame is its number, whether it is marked done and whether it carries
  the walls; a checksum in `Bench` is what it tells apart;
- in `Parallel` a worker's step is one ant, or one row of one grid. Workers
  only write their own ants and rows (`NoDataRace`), so nothing finer can be
  seen by another goroutine;
- in `Hub` the engine is only its loop: the look at the context, the tick, the
  offers. Requests and browsers come at any time or never;
- in `Admission` a document either decodes into numbers or does not; what JSON
  looks like is left out. One request is followed, since requests share nothing
  before the hub and the slot;
- in `UiClient` a request or an answer may be lost or overtaken; a broken stream
  may lose the frame under way;
- in `Transport` a body is a sequence of parts, each with its request, its number and
  whether it is compressed. The status 200 stands for every status with a body.
  `sync.Pool` makes a compressor when it has none: there are as many as requests.

## 3. Runs

| Run | Question | Bounds, and why they suffice |
|---|---|---|
| `colony` | are food, buffers, headings and frames right in every run? | 3x2 cells, a corridor that turns at its end, three piles of one unit (two on one cell), 2 ants in 3 headings that wander or not at every tick, 3 ticks, cancelled at any moment. Two ants reach the last unit of a cell in one tick; units are stored; ants block at walls and edges, and one born facing north has all six cells closed; a level reaches the ceiling and spreads to its neighbours; the observer's interval 2 does not divide 3. 315 000 states |
| `nest_larder` (violation) | does the premise of chooseMove's comment hold with food on the nest? | as `colony`, one ant, food on the nest |
| `dense` | are flatgrid, parallel and nogc the reference engine, and is the pool safe? | 2x3 cells: width and height differ, so a wrong row length and a row that runs into the next are seen; a wall at an edge; 3 ants, two of which can reach one unit in the same tick; 3 ticks, so that every buffer is reused; 1, 2 and 3 workers (`GOMAXPROCS` 0, 2 and 4, so that both clamps of `newPool` act), which gives shares of equal and of different size; levels high enough to spread over an edge; cancellation. `MCDense` starts either engine; the pooled ones, for their interleavings, follow two scripts per ant instead of five |
| `variants` | do Steps and marks tell the distance, does the smell lead to the nearest live pile? | 4x3 cells, 2 ants in 2 headings, one towards the near pile and one towards the smell of the far ones, 4 ticks: an ant fetches, stores and sets out again; `HalfLife` 1, so that every step halves the mark; `Radius` 2, one pile a step from the nest and two as far as the smell reaches, at equal distance, one unit each so that piles are spent |
| `hub` | do starts, stops, timeouts, engines and browsers agree in the end? | 2 starts, 1 stop and 2 browsers, any 3 of them (`MaxRequests`): two starts that overtake each other and one of the rest, or one run that is stopped or shared by two browsers. 2 ticks and a channel of one frame, so that frames are dropped before the last one; a timeout may end any run |
| `hub_one_live_run` (violation) | can two engines tick together? | 2 starts, without timeouts |
| `bench` | one bench at a time, a fair table, and the slot comes back? | 2 requests, lists of 3 out of 2 sound engines, a broken one, one of another variant and an unknown name; 2 repeats of 1 tick with wall time 0, 1 or 2, so that a first row may take no time and two later ones differ; timeouts and clients that leave. `MCBench` gives the lists of several engines to one request; the other asks for one engine and competes for the slot |
| `bench_mismatch` (violation) | does a mismatch mean that an engine is broken? | as `bench` |
| `setup` | is what is admitted a world within the caps, are the draws fair, and is every body whole around the handlers? | ints of 8 bits: about 3400 requests with walls at the edges of int, grids whose sides wrap in their product, overrides on both sides of every cap, documents each rule of `Validate` refuses. Words of 8 bits: every seed, 3 ants, 3 calls of `Intn` with bounds that divide the raw range and bounds that do not. Transport: 2 exchanges out of 5 kinds (a browser, a resumed download, a stream, a stranger, the probe) and 2 compressors, so that one may draw what the other left; bodies of up to 2 parts, each kept or put out; clients leave at any moment. The two halves share no state, so a behaviour follows one of them |
| `client` | does the page show one colony, with its walls, and come back? | 2 clicks of a patient user, any number of stops, one start of another page, 1 frame besides the last, 1 stream that breaks: every pair of a click, an answer and an event of either stream is met in both orders |
| `client_hasty` (violation) | also if the user clicks again before the answer? | 2 clicks |
| `server_stop` (violation) | have the handlers returned when the process ends? | 1 bench, 1 stream |

`CHECK_DEADLOCK FALSE` stands in the configurations of `Hub`, `Bench`, `Server`, `Setup`
and `UiClient`: when every request was answered, or refused, these systems are at
rest. The engines have an explicit final stutter instead, so any other
standstill of theirs would be a deadlock.

### What the passing runs show

`colony`: `FoodBalance` and `FoodLeftIsWhatLies` (the two counters and the map never
disagree, even inside phase B), `ImplementsHarvest` (units only move forward, one
at a time), `NoneIdlesOnFood`, `BlockedAntTurnsRound`, `WedgedOnlyBetweenWalls` (the
correction of `docs/journal/02-correction-blocked.md`),
`DecayStartsFromCleanBuffers`, `FramesInOrder`.

`dense`: `ImplementsNaive` is the refinement of `Colony!Spec`, fairness included, by
all three engines. While a phase is with the workers the serial engine has not
run it yet, at the barrier it is done at once, and slices are read through
`idx`: the result depends neither on the worker count nor on the schedule. The
golden files compare the results of four scenarios, this every state of every run
of a small world. `NoDataRace` compares what every goroutine is about to touch
in every state; `TypeOK` is the WaitGroup's count and the workers' shares;
`FlatTypeOK` keeps every address inside the slices; `NoWorkerLeft`: `Run` ends and
takes its workers with it.

`variants`: `StepsCoverTheWay` relates each ant's counter to where it stands,
`MarksFadeWithDistance` the deposits of all ants to the distance of the cell,
`TripStartsWithFullMark` the order of anchor and deposit within a commit.
`SmellsNearestLivePile` compares the scan with its definition from every cell in
every state of the piles, `SmellLeadsTheSearcher` the bias with the trail it
competes with, and with the gradient engine's decision once everything in reach is eaten.

`hub`: a run that left the map is cancelled, however starts overtake each other;
every frame offered is counted once; browsers that share a run share its frames,
in order; the frame with the walls waits for the first of them; the end event is
final; engines end whoever watches, and a browser that stays is told.

`bench`: `OneBenchAtATime`, `BrokenAreFlagged` (in a bench that was not cut short,
exactly the broken engines), `SpeedupWithinVariant`, `SlotComesBack`. A wall time may be 0:
the context may be dead before the first tick, and then a coarse clock measures
nothing. The code reads a baseline of 0 as "none yet" and divides by no wall time of
0, so such a row shows no speedup and the next engine of the variant takes its
place as baseline. That is what `SpeedupWithinVariant` says; app.js 300-302 speaks of
the variant's first row, which is the same whenever that row took time.

`setup`: `EnginesMayRelyOnIt` derives what `Grid` assumes from what was admitted,
overrides included, although the sums of a wall wrap; `CapsAreReal` says that
the caps bound the numbers and not products that wrapped; `Unbiased`; `OwnStreams`.
`BodyIsWhole`: whoever stayed has exactly what its own handler wrote, to the end, in the
encoding its header names, and a stream has each event when it is written.

`client`: `OneColony`, `WallsOfTheColony`, `StartComesBack`, `SourcesClose`.

### What the violation runs show

- `nest_larder`: with food on the nest, which `Validate` accepts, a blocked ant picks
  a unit up where it stands and is reversed a second time. The comment of
  `chooseMove` says that a blocked ant already holds the reversed heading.
- `hub_one_live_run`: `start` cancels the run it replaces without waiting for it.
  Engines look at their context between two ticks, so for a tick and a snapshot
  two run side by side. The comment promises one at a time. A run evicted before it
  was launched is no such case: its context is dead when its engine first looks.
- `bench_mismatch`: an engine whose context ended returns what it has and no error.
  The handler keeps the truncated run as the fastest, and flags sound engines
  as mismatched. The table is still delivered, five seconds of write deadline
  were reserved for it. The code says that a mismatch means that an
  optimization changed the simulation.
- `client_hasty`: Start is disabled only by the answer of its POST, and that answer
  overwrites the globals. Two clicks before it leave an `EventSource` the page
  has forgotten: it draws on the same canvas, its end closes the wrong
  stream, and it may reconnect for ever. The run `client` shows that nothing but
  the user's patience is missing.
- `server_stop`: `ListenAndServe` returns when `Shutdown` has closed the listener,
  not when it has waited for the handlers, and nobody waits for the goroutine that
  calls it. The process ends under benches and streams; README.md promises a
  clean stop.

### Fairness

Engines: `Run` is one goroutine that never waits for the outside, hence WF of its
steps (`Colony`, `FlatGrid`). `Parallel`: WF of the caller and of each worker: the
Go scheduler runs every goroutine that is not blocked, and a step that waits is
simply not enabled. `Hub`: WF of each launched engine, of the launch itself and
of each stream handler: their writes end, well (`Write`) or badly (`WriteFails`).
`Bench`: WF of each handler that was admitted. `UiClient`: WF of each engine and of
each `EventSource`, which connects, delivers and ends; a connection that fails
is answered. No fairness is assumed of requests, of users and browsers, of
`stop`, of timeouts or of the signal. A run takes finitely many ticks. Weak
fairness is enough everywhere: what a step waits for is not withdrawn, or
another step of the same goroutine is enabled instead. `Gradient`, `Scent`,
`Setup`, `Transport` and `Server` state no liveness and assume no fairness.

## 4. Proofs

`GridProofs` proves what the rules return, for every configuration: `Intn` is in its
range, the cone search finds a passable best candidate (`BestIsCandidate`, by a
maximum over three places), an intent leads to an open cell next to the ant or
nowhere (`ChooseMoveType`, `StepType`; `DecisionSound` asks only what any choice among
the candidates gives, so the scent engine's choice satisfies it too), deposits and
decayed levels stay below the ceiling (`AddSatType`, `DecayedType`). `DecayedType` rests on
`ShareBound`: a share n/d, n <= d, of v never exceeds v, also when the product wraps, so
the unsigned subtraction in `decayGrid` cannot wrap. Where a proof runs along a count
(the piles of a scan, the workers of a pool) it uses `UpTo`, induction as a fact about
a set of numbers: a set that holds 0 and each successor up to n holds all of `0 .. n`.

### The reference engine

`ColonyProofs` does not argue about `Next` but about `EngineStep`, which leaves open where
an ant decides to go, as long as the decision is sound, and how much a commit lays
on the ground. `Next` implies it (`ColonySteps`), and so do the steps of both variants:
every lemma about `EngineStep` is a fact about three engines. The invariant has these
parts:

- `Core`: types; the position of every stream as a function of the ticks alone,
  without which the next draw could lie past the end of the stream; the loop
  variable below `Ticks` inside a tick; ants off the walls; intents open, and
  where the ant stands if it is blocked. `StepCore` has one lemma for each group of
  actions;
- `Pantry`: food on a cell never exceeds the configured food, and nobody idles
  on food. It needs the part of `Core` about blocked intents, because a blocked
  ant commits to the cell it was on, which it left without acting;
- `FoodBalance`: one commit moves one ant into the carriers, out of them or
  neither (`CommitCarriers`, by the library's facts on cardinality);
- `FoodLeftIsWhatLies`: a pick-up takes the topmost unit of its cell and no other
  (`OneUnitLess`). Without it a pick-up could find the counter at zero, so the
  refinement of `Harvest` needs it;
- `FrameLog`: the frames given to the observer so far, numbered, as a function of the
  tick, whether the frame of this tick was offered and whether the run is
  over. `FramesInOrder` looks only at pairs of frames and is not inductive;
- `LookedBack`, for configurations without food on the nest: an ant that is marked
  blocked, and has not committed since, stands where it failed, and the three
  cells it faced then, behind it now, were closed. `WedgedOnlyBetweenWalls` compares
  two ticks, and this carries the first over to the second.

Theorems: `ColonyTypeOK`, `AntsStayOffWalls`, `ColonyFoodBalance`, `ColonyNoneIdlesOnFood`,
`ColonyFoodLeftIsWhatLies`, `ColonyFramesInOrder`, `ColonyDecayStartsFromCleanBuffers`;
`ColonyImplementsHarvest`, the refinement of `Harvest`; and, for configurations without
food on the nest, `ColonyBlockedAntTurnsRound` and `ColonyWedgedOnlyBetweenWalls`: the
finding of `nest_larder` shows that this condition is needed, the theorems that
nothing else is.

### The variants

`GradientProofs` shows first that each step of either engine is an `EngineStep`
(`GradientSteps`, `ScentSteps`, from `ScentSound`: the bias ranks candidates, and they
are open). That gives all of the above for both (`GradientIsAColony`, `ScentIsAColony`,
`…ImplementsHarvest`, `…TurnsRound`). Then, for both engines:

- `…StepsCoverTheWay`. A step changes the distance to any cell by at most one
  (`FarNext`), and the counter by one; it starts at 0 on the anchor. `Walked` bounds it
  by the ticks and `IntentsNear` says that an intent is at most a step away;
- `…MarksFade`. `Marks` counts during a commit: the first k ants laid at most k shares
  on a cell, each no more than `Halved` of its distance, since the counter covers the
  way and `Falloff` falls with it;
- `…TripStartsWithFullMark`, an action property: the commit anchors before it marks;
- `ScentSmellsNearestLivePile` holds in every state, reachable or not: the scan is
  a recursive function over the piles, which `ScanExists` shows to exist and
  `ScanNearest` follows pile by pile;
- `ScentLeadsTheSearcher` is the content of `SmellLeadsTheSearcher`. The pull is a quarter
  of saturation, so a better cell is turned down only for that much trail; without a
  pile in reach the score is the gradient engine's, and so is the choice.

### The engines over slices

`ParallelProofs`, for every grid, number of ants and of workers: `PooledTypeOK`
(the WaitGroup counts the workers that are busy or still to be handed the phase,
and a worker stays inside its share) and from it `PooledNoDataRace`. The shares of
two workers do not meet because `span` grows with the worker (`Shares`, `OwnShares`, from
the monotony of integer division); two rows share no address.

`FlatImplementsNaive` and `PooledImplementsNaive` are the safety part of `ImplementsNaive`:
the slices read through `idx` start as the maps of `Colony`, and every step is a step of
`Colony` or is not seen by it. The argument:

- `Idx` is a bijection of `Cells` and `Index` (`Address`, `CellOf`), and the rules
  give the same result on a slice as on the grid it is read as (`SameRules`: whether
  a cell is open, the chosen move, the food, a level after phase C);
- `FlatCore` keeps every slice and every ant in type, so no rule forms an address
  outside (`FlatSlicesKeepTheirTypes`, `PooledSlicesKeepTheirTypes`); `Sensed` and `Swapped`
  are the two parallel phases done at once, and are naive's steps (`LikeSense`,
  `LikeDecay`);
- in the pooled engines a phase is done a little at a time. `Decided(i)` and
  `Filled(g, y)` tell from the workers' positions which ants and rows are done; the
  invariant `PooledInv` says that a done one holds what naive computes and an open
  one what it held when the phase began, however the workers interleave. At the
  barrier nobody is busy, so all are done, because the shares cover everything
  (`PortionsCover`, `BarrierReached`);
- a worker's step is a stutter of `Colony` (`Unseen`), and the barrier the whole phase.

### The web interface

`HubProofs`, for any number of requests, ticks and any capacity: the invariant
`HubInv` (types; `hub.next` counts the starts that came, so an id is drawn once and a
run launched once; whoever refers to a run refers to one that was made) gives
`HubTypeOK` and `HubForgottenRunsAreCancelled`. `Stored` and `Over` (the result
precedes the closing of the channel, a run that is over does not move) give
`HubEndIsFinal`. `FramesInOrder` is not inductive: `OrderInv` adds that what waits in
a channel was taken by nobody and comes after all that was taken, and bounds
what is yet to be offered; `HubFramesInOrder` follows. `HubOpeningFrameKept` needs that
frame 0 is the first one offered and that nobody else removes it.
`HubFramesAccountedFor` counts the frames that left a channel as pairs of a browser and a
number: a receive adds one pair, a failed write keeps their number, and a browser
that connects brings none (from `OrderInv`). The set is finite because it grows one by
one, so the number of browsers need not be.

`BenchProofs`: `BenchesTakeTurns`, by the set of running benches, empty or one.
`BenchFlagsTheBroken` and `BenchComparesWithinVariants` rest on `TableInv`: the reference
of a variant is that of its first row, or unset while it has none (`Led`, `Unled`);
the baseline is the wall time of its first row that took any, or 0 while there is
none (`Paced`, `Unpaced`), because the code cannot tell a 0 it stored from an unset one;
every row was compared with them; what is kept between two repeats is a run of the
engine that repeats, a whole one while the context lives (`BestIsOfThisEngine`,
`RowsWhole`). The last part fails once the context ends, which is the finding of
`bench_mismatch`.

`RequestProofs`: `EnginesRelyOnAdmission` and `LimitsHold`, for every width of int.
The first needs that a wall with `x >= 0` and `w > 0` whose sum wraps covers no cell;
the second that factors within their caps have a product that does not wrap,
which is the part of `AdmissionAssumption` on the caps.

`DrawsAreUnbiased`, for words of every even width and every bound an ant asks for: the
raw words that give one value are those with `HalfSize * v + t <= x * n < HalfSize * (v + 1)`,
where t, the remainder, is what `Threshold` computes (`IntnCounts`); an interval whose
length is q times n has q multiples of n (`Multiples`). The bounds are positive because
`Validate` looks at the configuration after the overrides, so the invariant `SetupInv`
contains that of `Admission`. `StreamsAreOwn`, for every seed, number of ants, odd
multipliers and shifts: each step from an ant's index to the first word of its
generator can be undone. An odd factor is lost in no power of two (`OddFactor`,
`MulInjective`); `z ^ (z >> m)` is undone from the highest bit down (`ShiftInjective`, from
`XorDiv`: the bits of a ^ do not mix). `SeedRngInjective` shows on the way that the guard
against an all-zero state never acts: of four different counters at most one is
mixed to 0. With an even multiplier two indices could share a generator.

`TransportTyped` and `BodiesAreWhole`: the invariant follows a body on its way; what is on the wire and what
the compressor keeps make up, in this order, what the handler wrote (`Follows`),
from a fresh compressor (`Fresh`) until it was closed. A step of one request leaves
the others alone because no two of them hold one compressor, which is why types
and ownership come first.

`UiClientProofs`: `PatientUserHasOneColony` and `PatientUserSeesItsWalls`, under
`Patient`. Neither is inductive: an answer opens a stream without closing one,
which is harmless because the click closed what there was and no second answer
is under way (`OneInv`).

### Assumptions

Those named in the modules (`ConfigAssumption`, `WorldAssumption`, `TotalAssumption`,
`RunAssumption`, `FlatRunAssumption`, `ProcsAssumption`, `FalloffAssumption`,
`PowerAssumption`, `RadiusAssumption`, `HubAssumption`, `BenchAssumption`,
`AdmissionAssumption`, `RngAssumption`, `XorAssumption`, `BitsAssumption`, `SetupAssumption`,
`UiAssumption`, `TransportAssumption`), all evaluated by TLC in the
runs. Most say what `Validate`, a constant of the code or the type of a value gives.
Three are arithmetic the proof system cannot unfold, because it would be induction:
`TotalAssumption` says of the sums `FoodAt` and `FoodTotal` that a cell with food has a pile
and that the total is the number of units that lie at the start; `PowerAssumption` says
of `2 ^ n` that it is positive and grows, for the exponents of a run, and `BitsAssumption`
that it doubles, for those of a word. `XorOf` is Go's ^, a table the instance fills
bit by bit; `XorAssumption` says that it is symmetric, that a second ^ with the same
word undoes the first, and that halving both words halves the result. `SetupAssumption`
says that seeds are words and an int is no wider than one. `BenchAssumption` says that
`None` is no wall time, engine or checksum; wall times are any set of natural numbers.

### Only model-checked

- every liveness property (`NoWorkerLeft`, `RunEnds`, `StreamEnds`, `SlotComesBack`,
  `StartComesBack`, `SourcesClose`) and the fairness in `ImplementsNaive`, which are out of
  their reach;
- that the sums over piles and cells are what `TotalAssumption` says of them, for
  the worlds of the runs.

## 5. Not modelled

- TLS, the connection's deadlines and the digests of basic auth: per-request work of
  `net/http` and the standard library. A handler that panics: none is meant to.
- `handleResult`, `handleMeta`, `handleScenario`: they read and change nothing.
- Hashes and canonical forms: arithmetic on 64-bit words that no property here is
  about; `Bench` keeps what a checksum tells apart.
- antsim's profiles, output and comparison of repeats; drawing, the form and the
  bench table of the page.
- JSON decoding and the embedded files: a document, or none.
- `FoodLeft` near 2^63: `Validate` bounds amounts from below only, so the sum may
  wrap while the map holds each amount. `Grid` keeps amounts in `Nat`.
- The registry's panic on a duplicate name, which happens before `main` or never.

## 6. Plan

Done: `Grid`, `Harvest`, `Colony`, `FlatGrid`, `Pool`, `Parallel`, `Gradient`, `Scent`, `Hub`,
`Bench`, `Server`, `Admission`, `Rng`, `Setup`, `UiClient`, `Transport`, and the proofs above:
every safety property the passing runs check is a theorem. Next:

1. An abstract specification of the hub, a list of runs of which the newest is live and
   a queue of frames for each, and `Hub` as its refinement.
2. What the slot promises to `Server`: with limits, at most one bench is cut off by
   the end of the process.
3. The generator after its first draw: that `Advanced` can be undone, so that the
   generators of two ants differ after equally many words too.
