------------------------------ MODULE Parallel ------------------------------
(***************************************************************************)
(* The parallel and nogc engines (internal/engine/parallel and             *)
(* internal/engine/nogc): the slices of FlatGrid and the workers of Pool   *)
(* together.  Phase B, the loop of Run and what an ant decides are         *)
(* flatgrid's; phases A and C are handed to the workers.  A worker's step  *)
(* is one ant of phase A or one row of one grid of phase C; the steps of   *)
(* different workers interleave freely.  The two engines differ in         *)
(* Ant.Trail alone, which nothing reads.                                   *)
(***************************************************************************)
EXTENDS FlatGrid, Pool, Functions

pooledVars == <<vars, n, pool>>

NoIntent == [pos |-> <<0, 0>>, dir |-> 0, blocked |-> FALSE]

PooledInit == NewFlatWorld /\ intents = [i \in Ants |-> NoIntent] /\ NewPool

(***************************************************************************)
(* The calling goroutine.                                                  *)
(***************************************************************************)
PooledLoopHead ==
  /\ LoopHead
  /\ IF phase' = "sense" THEN Submit ELSE UNCHANGED pool
  /\ UNCHANGED n

PooledHand == phase \in {"sense", "decay"} /\ HandOver(phase) /\ UNCHANGED vars

PooledWait ==
  /\ phase \in {"sense", "decay"} /\ Released
  /\ phase' = IF phase = "sense" THEN "commit" ELSE "swap"
  /\ UNCHANGED <<ants, stream, drawn, larder, grids, intents, committed, loop, cancelled,
                 walls, n, pool>>

PooledCommit == Commit /\ UNCHANGED <<n, pool>>

PooledStartDecay ==
  /\ phase = "commit" /\ committed = AntCount
  /\ phase' = "decay" /\ committed' = 0
  /\ Submit
  /\ UNCHANGED <<ants, stream, drawn, larder, grids, intents, loop, cancelled, walls, n>>

\* After the barrier: swap both double buffers, then clear four slices.
PooledSwap ==
  /\ phase = "swap"
  /\ pheroFood' = nextFood /\ pheroHome' = nextHome
  /\ depFood' = ZeroSlice /\ depHome' = ZeroSlice
  /\ nextFood' = ZeroSlice /\ nextHome' = ZeroSlice
  /\ phase' = "observe"
  /\ UNCHANGED <<ants, stream, drawn, larder, intents, committed, loop, cancelled, walls,
                 n, pool>>

PooledObserve == Observe /\ UNCHANGED <<n, pool>>
PooledFinish  == Finish /\ Stop
PooledCancel  == Cancel /\ UNCHANGED <<n, pool>>

PooledCaller ==
  \/ PooledLoopHead \/ PooledHand \/ PooledWait \/ PooledCommit
  \/ PooledStartDecay \/ PooledSwap \/ PooledObserve \/ PooledFinish

(***************************************************************************)
(* The workers.                                                            *)
(***************************************************************************)
PooledSenseAnt(k) ==
  /\ Senses(k)
  /\ intents' = [intents EXCEPT ![at[k]] = FlatMove(at[k])]
  /\ drawn' = [drawn EXCEPT ![at[k]] = @ + 2]
  /\ Advance(k)
  /\ UNCHANGED <<ants, stream, larder, grids, phase, committed, loop, cancelled, walls>>

\* Row y of the slices is the addresses y * W .. y * W + W - 1.
BandOf(y) == y * Width .. y * Width + Width - 1

WrittenBand(cur, dep, next, y) ==
  [i \in Index |-> IF i \in BandOf(y) THEN FlatWritten(cur, dep, next)[i] ELSE next[i]]

PooledDecayRow(k) ==
  /\ Decays(k)
  /\ IF grid[k] = "food"
     THEN nextFood' = WrittenBand(pheroFood, depFood, nextFood, at[k]) /\ UNCHANGED nextHome
     ELSE nextHome' = WrittenBand(pheroHome, depHome, nextHome, at[k]) /\ UNCHANGED nextFood
  /\ Advance(k)
  /\ UNCHANGED <<ants, stream, drawn, larder, pheroFood, pheroHome, depFood, depHome,
                 intents, phase, committed, loop, cancelled, walls>>

PooledWorker(k) ==
  k \in Workers /\ (PooledSenseAnt(k) \/ PooledDecayRow(k) \/ (Idles(k) /\ UNCHANGED vars))

PooledNext ==
  \/ PooledCaller \/ PooledCancel
  \/ \E k \in 0 .. Height - 1 : PooledWorker(k)
  \/ AllExited /\ UNCHANGED pooledVars

PooledSpec ==
  /\ PooledInit /\ [][PooledNext]_pooledVars
  /\ WF_pooledVars(PooledCaller)
  /\ \A k \in 0 .. Height - 1 : WF_pooledVars(PooledWorker(k))
-----------------------------------------------------------------------------
(***************************************************************************)
(* Properties.                                                             *)
(***************************************************************************)
\* The caller is in a phase of Run, and the pool keeps its books in it.
TypeOK ==
  /\ phase \in {"loop", "sense", "commit", "decay", "swap", "observe", "final", "returned"}
  /\ PoolTypeOK(phase)

(***************************************************************************)
(* What each goroutine touches in its next step, as <<slice, index>>.      *)
(***************************************************************************)
\* chooseMove looks at the cells of the cone, level at the four neighbours.
Looked(a) == {Idx(Ahead(a.pos, d)) : d \in {e \in Range(Cone(a.dir)) : InBounds(Ahead(a.pos, e))}}
Halo(y) == (y * Width - Width .. y * Width + 2 * Width - 1) \cap Index

WorkerReads(k) ==
  IF Senses(k)
  THEN {<<"ants", at[k]>>} \cup ({"walls", "pheroFood", "pheroHome"} \X Looked(ants[at[k]]))
  ELSE IF Decays(k)
  THEN (IF grid[k] = "food" THEN {"pheroFood", "depFood"} ELSE {"pheroHome", "depHome"})
         \X Halo(at[k])
  ELSE {}

WorkerWrites(k) ==
  IF Senses(k) THEN {"intents", "rng"} \X {at[k]}
  ELSE IF Decays(k)
  THEN {IF grid[k] = "food" THEN "nextFood" ELSE "nextHome"} \X BandOf(at[k])
  ELSE {}

CallerReads ==
  IF phase = "commit" /\ committed < AntCount THEN {<<"intents", committed>>}
  ELSE IF phase \in {"observe", "final"}
  THEN ({"ants"} \X Ants) \cup ({"walls", "pheroFood", "pheroHome"} \X Index)
  ELSE {}

CallerWrites ==
  IF phase = "commit" /\ committed < AntCount
  THEN {<<"ants", committed>>} \cup ({"depFood", "depHome"} \X {Idx(intents[committed].pos)})
  ELSE IF phase = "swap"
  THEN {"pheroFood", "pheroHome", "depFood", "depHome", "nextFood", "nextHome"} \X Index
  ELSE {}

\* No two goroutines are ever about to touch the same element of a slice, one of
\* them writing (parallel.go 10-16: "safe without a single lock").
NoDataRace ==
  /\ \A j, k \in Workers :
       j # k => WorkerWrites(j) \cap (WorkerReads(k) \cup WorkerWrites(k)) = {}
  /\ \A k \in Workers :
       /\ CallerWrites \cap (WorkerReads(k) \cup WorkerWrites(k)) = {}
       /\ CallerReads \cap WorkerWrites(k) = {}

\* Run returns and leaves no worker behind: none is stuck at its receive, none
\* waits for a phase that never comes.
NoWorkerLeft == <>(phase = "returned" /\ AllExited)

\* The engines over slices give the results of naive, tick by tick and frame by
\* frame, whatever the worker count and the interleaving: while a phase is out
\* with the workers the serial engine has not run it yet, at the barrier it is
\* done at once, and a slice is read cell by cell through idx.  The golden files
\* compare the results of four scenarios (flatgrid.go 1-6, parallel.go 18-20).
Naive == INSTANCE Colony WITH
  phase     <- IF phase \in {"decay", "swap"} THEN "commit" ELSE phase,
  committed <- IF phase \in {"decay", "swap"} THEN AntCount ELSE committed,
  intents   <- IF phase \in {"commit", "decay", "swap"} THEN intents ELSE <<>>,
  drawn     <- IF phase = "sense" THEN [i \in Ants |-> 1 + 2 * t] ELSE drawn,
  food <- ByCell(food),
  pheroFood <- ByCell(pheroFood), pheroHome <- ByCell(pheroHome),
  depFood <- ByCell(depFood), depHome <- ByCell(depHome),
  nextFood <- ByCell(ZeroSlice), nextHome <- ByCell(ZeroSlice)
ImplementsNaive == Naive!Spec
=============================================================================
